---- MODULE Spec2Model ----
(***************************************************************************)
(* Checkpoint & timeline subsystem of claude-code-manager-pyqt.             *)
(*                                                                         *)
(* core/checkpoint_manager.py (CheckpointManager) is modelled operation by  *)
(* operation as operators over a store record; the actions of Spec are      *)
(* direct calls of the public methods with inputs drawn from small sets.    *)
(* SpecPanel drives the same operators through ui/panels/timeline_panel.py. *)
(***************************************************************************)
EXTENDS Integers, Sequences, FiniteSets, TLC

VARIABLES
    fs,                 \* project directory: path -> file content (a sequence of lines)
    indexFile,          \* checkpoints/index.json: whether it exists, and its array of dicts
    cache,              \* CheckpointManager._checkpoints: None (not loaded), or the list
    rootDir,            \* whether the checkpoints directory exists
    dirs,               \* checkpoint ids whose data directory exists
    snapshots,          \* checkpoint id -> content of <id>/session.jsonl (where it exists)
    nextId,             \* the next fresh uuid4 (checkpoint ids are 1, 2, ...)
    now,                \* datetime.now()
    lastOp,             \* the last call: its name, arguments, outcome and file writes
    forkCreated,        \* ids of the checkpoints recorded by fork_session
    deletedIds,         \* ids of the checkpoints delete_checkpoint has removed
    otherCache,         \* _checkpoints of a second CheckpointManager on the same directory
    agents,             \* the AgentManager: agent_runs.json, _runs, the run objects and threads
    current_session,    \* TimelinePanel.current_session
    current_checkpoint  \* TimelinePanel.current_checkpoint (the id of the object held)

vars == <<fs, indexFile, cache, rootDir, dirs, snapshots, nextId, now, lastOp,
          forkCreated, deletedIds, otherCache, agents, current_session,
          current_checkpoint>>

storeVars == <<fs, indexFile, cache, rootDir, dirs, snapshots, nextId>>
panelVars == <<current_session, current_checkpoint>>

(***************************************************************************)
(* Bounds                                                                  *)
(***************************************************************************)
MaxCheckpoints == 3      \* checkpoints created in a run of Spec
MaxLogCheckpoints == 2   \* checkpoints created in a run of SpecLog
MaxLen == 3              \* lines of a session log in a run of SpecLog
MaxRestoreCheckpoints == 2  \* checkpoints created in a run of SpecRestore
MaxRestoreLen == 2       \* lines of a session log in a run of SpecRestore
MaxForkCheckpoints == 2  \* checkpoints created in a run of SpecFork
MaxForkLen == 2          \* lines of a session log in a run of SpecFork
MaxPanelCheckpoints == 2 \* checkpoints created in a run of SpecPanel
MaxStoreCheckpoints == 2 \* checkpoints created in a run of SpecStore
MaxSnapshotCheckpoints == 2  \* checkpoints created in a run of SpecSnapshot
MaxCrashCheckpoints == 3 \* checkpoints created in a run of SpecCrash
MaxParentCheckpoints == 3  \* checkpoints created in a run of SpecParent
MaxMetaCheckpoints == 3   \* checkpoints created in a run of SpecMeta
MaxMetaTime == 1         \* ticks of the clock in a run of SpecMeta
MaxCorruptCheckpoints == 2  \* checkpoints created in a run of SpecCorrupt
MaxFaultCheckpoints == 2 \* checkpoints created in a run of SpecFault
MaxSharedCheckpoints == 2  \* checkpoints created in a run of SpecShared
MaxDiffCheckpoints == 2  \* checkpoints created in a run of SpecDiff
MaxDiffLen == 3          \* lines of a session log in a run of SpecDiff
MaxRecursion == 3        \* frames of _ensure_dir_exists/_save_checkpoints before RecursionError
MaxClockCheckpoints == 3 \* checkpoints created in a run of SpecClock
MaxRuns == 2             \* agent runs started in a run of SpecAgents

(***************************************************************************)
(* Values                                                                  *)
(***************************************************************************)
None == "None"
NoField == "<absent>"
\* Optional[str] = None of a checkpoint id (ids are numbers here)
NoId == 0

\* index.json: absent, or holding a JSON array
\* (form is what the file's text is: the array json.dump wrote, or damaged text)
MissingFile == [exists |-> FALSE, data |-> <<>>, form |-> "array"]
IndexOf(array) == [exists |-> TRUE, data |-> array, form |-> "array"]

\* index.json holding something else than an array of checkpoint dicts:
\*   "not_json"          text json.load rejects             [{"checkpoint_id":
\*   "number"            a JSON value that is no container   5
\*   "object"            a JSON object                       {"a": 1}
\*   "array_of_numbers"  an array of values that are no dict [1]
\*   "bad_timestamp"     a dict whose timestamp is no date   [{"timestamp": "yesterday"}]
CorruptForms == {"not_json", "number", "object", "array_of_numbers", "bad_timestamp"}
CorruptIndex(form) == [exists |-> TRUE, data |-> <<>>, form |-> form]

\* self._checkpoints: None, or a list
NotLoaded == [loaded |-> FALSE, list |-> <<>>]
Loaded(list) == [loaded |-> TRUE, list |-> list]

SessionIds == {"s1", "s2"}
Uuids == {"m1", "m2"}
CheckpointIds == 1..MaxCheckpoints
LogCheckpointIds == 1..MaxLogCheckpoints
RestoreCheckpointIds == 1..MaxRestoreCheckpoints
ForkCheckpointIds == 1..MaxForkCheckpoints
BranchNames == {None, "dev"}

\* A line of a session log.  An object line carries the fields the code reads;
\* fmt tells whether its text is what json.dumps would write.
ObjLine(u, t, s, c, f) ==
    [kind |-> "obj", uuid |-> u, type |-> t, sessionId |-> s, content |-> c, fmt |-> f]
OtherLine(k) ==
    [kind |-> k, uuid |-> NoField, type |-> NoField, sessionId |-> NoField,
     content |-> NoField, fmt |-> "raw"]

UserLine == ObjLine("m1", "user", "s1", "text", "canonical")
AssistantLine == ObjLine("m2", "assistant", "s1", "structured", "spaced")
SummaryLine == ObjLine(NoField, "summary", NoField, NoField, "canonical")
\* an assistant record whose content is a plain string
ReplyLine == ObjLine("m3", "assistant", "s1", "text", "canonical")
\* a user record that has no message content at all
EmptyChatLine == ObjLine("m4", "user", "s1", NoField, "canonical")
GarbageLine == OtherLine("garbage")
BlankLine == OtherLine("blank")
ScalarLine == OtherLine("scalar")

Lines == {UserLine, AssistantLine, SummaryLine, GarbageLine, BlankLine, ScalarLine}
RestoreLines == {AssistantLine}
ForkLines == {UserLine, AssistantLine, SummaryLine}

\* Path(name) as the dot-separated parts of its file name, in one project directory.
LogPath(sid) == <<sid, "jsonl">>

\* pathlib.PurePath.with_suffix: the last suffix, when there is one, is replaced.
with_suffix(p, suffix) ==
    (IF Len(p) > 1 THEN SubSeq(p, 1, Len(p) - 1) ELSE p) \o suffix

BackupPath(p) == with_suffix(p, <<"jsonl", "backup">>)

WriteFile(files, p, content) ==
    [q \in (DOMAIN files) \cup {p} |-> IF q = p THEN content ELSE files[q]]

(***************************************************************************)
(* json                                                                    *)
(***************************************************************************)
\* line.strip() followed by json.loads: a dict, another JSON value, or JSONDecodeError.
json_loads(line) ==
    CASE line.kind = "obj" ->
            [ok |-> TRUE, isDict |-> TRUE,
             value |-> [uuid |-> line.uuid, type |-> line.type,
                        sessionId |-> line.sessionId, content |-> line.content]]
      [] line.kind = "scalar" ->
            [ok |-> TRUE, isDict |-> FALSE,
             value |-> [uuid |-> NoField, type |-> NoField,
                        sessionId |-> NoField, content |-> NoField]]
      [] OTHER ->
            [ok |-> FALSE, isDict |-> FALSE,
             value |-> [uuid |-> NoField, type |-> NoField,
                        sessionId |-> NoField, content |-> NoField]]

json_dumps(d) ==
    ObjLine(d.uuid, d.type, d.sessionId, d.content, "canonical")

(***************************************************************************)
(* models.Checkpoint                                                       *)
(***************************************************************************)
Checkpoint(id, sid, name, description, ts, uuid, parent, branch) ==
    [checkpoint_id |-> id, session_id |-> sid, name |-> name,
     description |-> description, timestamp |-> ts, message_uuid |-> uuid,
     parent_checkpoint_id |-> parent, branch_name |-> branch]

to_dict(c) ==
    [checkpoint_id |-> c.checkpoint_id, session_id |-> c.session_id,
     name |-> c.name, description |-> c.description,
     timestamp |-> <<"iso", c.timestamp>>, message_uuid |-> c.message_uuid,
     parent_checkpoint_id |-> c.parent_checkpoint_id, branch_name |-> c.branch_name]

from_dict(d) ==
    Checkpoint(d.checkpoint_id, d.session_id, d.name, d.description,
               d.timestamp[2], d.message_uuid, d.parent_checkpoint_id, d.branch_name)

MapSeq(Op(_), s) == [i \in 1..Len(s) |-> Op(s[i])]

FilterSeq(Test(_), s) ==
    LET F[i \in 0..Len(s)] ==
            IF i = 0 THEN <<>>
            ELSE IF Test(s[i]) THEN Append(F[i - 1], s[i]) ELSE F[i - 1]
    IN F[Len(s)]

(***************************************************************************)
(* The store: the variables a CheckpointManager call reads and writes       *)
(***************************************************************************)
\* fault names the file whose opening for writing the operating system refuses
\* during the call (None: every write succeeds).
Store ==
    [fs |-> fs, indexFile |-> indexFile, cache |-> cache, rootDir |-> rootDir,
     dirs |-> dirs, snapshots |-> snapshots, nextId |-> nextId, fault |-> None]

\* the files the manager writes: index.json, a snapshot's session.jsonl, the
\* backup of a live log, the live log, the log of a forked session
Faults == {"index", "snapshot", "backup", "live", "forked"}

WithFault(st, fault) == [st EXCEPT !.fault = fault]

\* The outcome of a call: the store it leaves, the exception it raised (None when
\* it returned), the value it returned and the files it wrote, in order.
Outcome(st, raised, value, writes) ==
    [st |-> st, raised |-> raised, value |-> value, writes |-> writes]

RECURSIVE _ensure_dir_exists(_, _)
RECURSIVE _save_checkpoints(_, _, _)

\* self.checkpoints_dir.mkdir(parents=True, exist_ok=True)
mkdir(st) == [st EXCEPT !.rootDir = TRUE]

\* depth counts the Python frames of the mutual recursion; the interpreter
\* raises RecursionError when the recursion limit is passed.
_ensure_dir_exists(st, depth) ==
    IF depth > MaxRecursion THEN Outcome(mkdir(st), "RecursionError", None, <<>>)
    ELSE IF ~st.indexFile.exists THEN _save_checkpoints(mkdir(st), <<>>, depth + 1)
    ELSE Outcome(mkdir(st), None, None, <<>>)

\* lines 50-52 of _save_checkpoints, reached when its call of _ensure_dir_exists
\* returned: the dump of the list, and the cache set to it
dump_checkpoints(ensured, checkpoints) ==
    IF ensured.raised # None THEN ensured
    ELSE IF ensured.st.fault = "index"
         THEN Outcome(ensured.st, "OSError", None, ensured.writes)
    ELSE Outcome([ensured.st EXCEPT !.indexFile = IndexOf(MapSeq(to_dict, checkpoints)),
                                    !.cache = Loaded(checkpoints)],
                 None, None, <<"index">>)

_save_checkpoints(st, checkpoints, depth) ==
    IF depth > MaxRecursion THEN Outcome(st, "RecursionError", None, <<>>)
    ELSE dump_checkpoints(_ensure_dir_exists(st, depth + 1), checkpoints)

\* lines 37-41 of get_checkpoints: json.load and the list comprehension over
\* its value.  Only json.JSONDecodeError and IOError are caught (line 40): the
\* iteration over a number raises TypeError, .get on a string key or a number
\* raises AttributeError, datetime.fromisoformat of a text that is no date
\* raises ValueError.
read_index(file) ==
    CASE file.form = "array" -> [raised |-> None, list |-> MapSeq(from_dict, file.data)]
      [] file.form = "not_json" -> [raised |-> None, list |-> <<>>]
      [] file.form = "number" -> [raised |-> "TypeError", list |-> <<>>]
      [] file.form = "object" -> [raised |-> "AttributeError", list |-> <<>>]
      [] file.form = "array_of_numbers" -> [raised |-> "AttributeError", list |-> <<>>]
      [] file.form = "bad_timestamp" -> [raised |-> "ValueError", list |-> <<>>]

\* lines 37-43 of get_checkpoints, reached when its call of _ensure_dir_exists
\* returned: the cache filled from the index file
load_checkpoints(ensured) ==
    IF ensured.raised # None THEN ensured
    ELSE IF read_index(ensured.st.indexFile).raised # None
         THEN Outcome(ensured.st, read_index(ensured.st.indexFile).raised, None,
                      ensured.writes)
    ELSE Outcome([ensured.st EXCEPT
                     !.cache = Loaded(read_index(ensured.st.indexFile).list)],
                 None, None, ensured.writes)

\* lines 43-45 of get_checkpoints: the cached list, or its checkpoints of a session
checkpoints_of(loaded, session_id) ==
    IF loaded.raised # None THEN loaded
    ELSE Outcome(loaded.st, None,
                 IF session_id # None /\ session_id # ""
                 THEN FilterSeq(LAMBDA c : c.session_id = session_id, loaded.st.cache.list)
                 ELSE loaded.st.cache.list,
                 loaded.writes)

\* Mutant of get_checkpoints: the index file is read on every call.
get_checkpoints_uncached(st, session_id, force_refresh) ==
    checkpoints_of(load_checkpoints(_ensure_dir_exists(st, 1)), session_id)

\* Mutant of get_checkpoints: force_refresh is ignored once the list is cached.
get_checkpoints_cached(st, session_id, force_refresh) ==
    checkpoints_of(IF ~st.cache.loaded
                   THEN load_checkpoints(_ensure_dir_exists(st, 1))
                   ELSE Outcome(st, None, None, <<>>),
                   session_id)

get_checkpoints(st, session_id, force_refresh) ==
    checkpoints_of(IF ~st.cache.loaded \/ force_refresh
                   THEN load_checkpoints(_ensure_dir_exists(st, 1))
                   ELSE Outcome(st, None, None, <<>>),
                   session_id)

(***************************************************************************)
(* create_checkpoint                                                       *)
(***************************************************************************)
\* The loop of create_checkpoint over the lines of the session file, from line i
\* on: blank and unparseable lines are skipped, the loop breaks after the first
\* record whose uuid is message_uuid.  data.get on a JSON value that is not an
\* object raises AttributeError, which the loop does not catch.
RECURSIVE read_up_to(_, _, _, _)

\* Mutant of read_up_to: the loop never breaks at the target record.
RECURSIVE read_up_to_no_break(_, _, _, _)
read_up_to_no_break(lines, i, message_uuid, acc) ==
    IF i > Len(lines) THEN [raised |-> None, messages |-> acc]
    ELSE LET line == lines[i]
             data == json_loads(line)
         IN IF line.kind = "blank" THEN read_up_to_no_break(lines, i + 1, message_uuid, acc)
            ELSE IF ~data.ok THEN read_up_to_no_break(lines, i + 1, message_uuid, acc)
            ELSE IF ~data.isDict THEN [raised |-> "AttributeError", messages |-> acc]
            ELSE read_up_to_no_break(lines, i + 1, message_uuid, Append(acc, data.value))

read_up_to(lines, i, message_uuid, acc) ==
    IF i > Len(lines) THEN [raised |-> None, messages |-> acc]
    ELSE LET line == lines[i]
             data == json_loads(line)
         IN IF line.kind = "blank" THEN read_up_to(lines, i + 1, message_uuid, acc)
            ELSE IF ~data.ok THEN read_up_to(lines, i + 1, message_uuid, acc)
            ELSE IF ~data.isDict THEN [raised |-> "AttributeError", messages |-> acc]
            ELSE IF data.value.uuid = message_uuid
                 THEN [raised |-> None, messages |-> Append(acc, data.value)]
            ELSE read_up_to(lines, i + 1, message_uuid, Append(acc, data.value))

\* Mutant of new_uuid: an id that was handed out before.
reused_uuid(st) == IF st.nextId > 1 THEN st.nextId - 1 ELSE st.nextId

\* uuid.uuid4(): an id never handed out before.
new_uuid(st) == st.nextId

\* line 107 of create_checkpoint, reached when _save_checkpoints returned
create_result(saved, checkpoint, written) ==
    IF saved.raised # None THEN Outcome(saved.st, saved.raised, None, written)
    ELSE Outcome(saved.st, None, checkpoint, written \o saved.writes)

\* lines 103-105 of create_checkpoint, reached when get_checkpoints returned:
\* checkpoints.append mutates the cached list itself, before the save
append_checkpoint(got, checkpoint, written) ==
    IF got.raised # None THEN Outcome(got.st, got.raised, None, written)
    ELSE create_result(_save_checkpoints(
                     [got.st EXCEPT !.cache = Loaded(Append(got.value, checkpoint))],
                     Append(got.value, checkpoint), 1),
                 checkpoint, written)

\* lines 97-105 of create_checkpoint, with the data directory made (st) and the
\* session file read (rd, when it exists)
write_snapshot(st, checkpoint, exists, rd) ==
    IF rd.raised # None THEN Outcome(st, rd.raised, None, <<>>)
    ELSE IF exists /\ st.fault = "snapshot" THEN Outcome(st, "OSError", None, <<>>)
    ELSE append_checkpoint(
             get_checkpoints(
                 IF exists
                 THEN [st EXCEPT !.snapshots =
                          WriteFile(@, checkpoint.checkpoint_id,
                                    MapSeq(json_dumps, rd.messages))]
                 ELSE st,
                 None, FALSE),
             checkpoint,
             IF exists THEN <<"snapshot">> ELSE <<>>)

create_checkpoint(st, session_id, session_path, message_uuid, name, description, parent_checkpoint_id, branch_name, ts) ==
    write_snapshot(
        [st EXCEPT !.nextId = @ + 1, !.rootDir = TRUE, !.dirs = @ \cup {new_uuid(st)}],
        Checkpoint(new_uuid(st), session_id, name, description, ts,
                   message_uuid, parent_checkpoint_id, branch_name),
        session_path \in DOMAIN st.fs,
        IF session_path \in DOMAIN st.fs
        THEN read_up_to(st.fs[session_path], 1, message_uuid, <<>>)
        ELSE [raised |-> None, messages |-> <<>>])

\* Optional[Checkpoint]: the empty sequence for None, else the checkpoint alone.
find_checkpoint(got, checkpoint_id) ==
    LET hits == IF got.raised = None
                THEN FilterSeq(LAMBDA c : c.checkpoint_id = checkpoint_id, got.value)
                ELSE <<>>
    IN IF got.raised # None THEN got
       ELSE Outcome(got.st, None, SubSeq(hits, 1, IF hits = <<>> THEN 0 ELSE 1), got.writes)

get_checkpoint(st, checkpoint_id) ==
    find_checkpoint(get_checkpoints(st, None, FALSE), checkpoint_id)

(***************************************************************************)
(* delete_checkpoint                                                       *)
(***************************************************************************)
\* Mutant of reparent: the children of the deleted checkpoint become roots.
reparent_to_root(checkpoints, checkpoint_id, new_parent) ==
    [i \in 1..Len(checkpoints) |->
        IF checkpoints[i].parent_checkpoint_id = checkpoint_id
        THEN [checkpoints[i] EXCEPT !.parent_checkpoint_id = NoId]
        ELSE checkpoints[i]]

\* Mutant of reparent: the child's own id is assigned (the wrong attribute).
reparent_to_self(checkpoints, checkpoint_id, new_parent) ==
    [i \in 1..Len(checkpoints) |->
        IF checkpoints[i].parent_checkpoint_id = checkpoint_id
        THEN [checkpoints[i] EXCEPT !.parent_checkpoint_id = checkpoints[i].checkpoint_id]
        ELSE checkpoints[i]]

\* Mutant of reparent: every checkpoint that has a parent is re-pointed.
reparent_all(checkpoints, checkpoint_id, new_parent) ==
    [i \in 1..Len(checkpoints) |->
        IF checkpoints[i].parent_checkpoint_id # NoId
        THEN [checkpoints[i] EXCEPT !.parent_checkpoint_id = new_parent]
        ELSE checkpoints[i]]

\* for cp in checkpoints: if cp.parent_checkpoint_id == checkpoint_id: ...
reparent(checkpoints, checkpoint_id, new_parent) ==
    [i \in 1..Len(checkpoints) |->
        IF checkpoints[i].parent_checkpoint_id = checkpoint_id
        THEN [checkpoints[i] EXCEPT !.parent_checkpoint_id = new_parent]
        ELSE checkpoints[i]]

\* Mutant of remove_from_index: the deleted entry stays in the saved list.
remove_nothing(checkpoints, checkpoint_id) == checkpoints

remove_from_index(checkpoints, checkpoint_id) ==
    FilterSeq(LAMBDA c : c.checkpoint_id # checkpoint_id, checkpoints)

\* Mutant of rmtree: the data directory is left in place.
rmtree_nothing(st, checkpoint_id) == st

\* shutil.rmtree of the checkpoint's data directory
rmtree(st, checkpoint_id) ==
    [st EXCEPT !.dirs = @ \ {checkpoint_id},
               !.snapshots = [i \in (DOMAIN @) \ {checkpoint_id} |-> @[i]]]

\* line 145 of delete_checkpoint, reached when _save_checkpoints returned
delete_result(saved, written) ==
    IF saved.raised # None THEN Outcome(saved.st, saved.raised, None, written)
    ELSE Outcome(saved.st, None, TRUE, written \o saved.writes)

\* lines 122-145 of delete_checkpoint, reached when get_checkpoints returned
delete_from(got, checkpoint_id) ==
    LET hits == FilterSeq(LAMBDA c : c.checkpoint_id = checkpoint_id, got.value)
        checkpoint == hits[1]
        has_data == checkpoint_id \in got.st.dirs
        \* the children are re-pointed in the cached objects themselves
        checkpoints == reparent(got.value, checkpoint_id, checkpoint.parent_checkpoint_id)
    IN IF got.raised # None THEN got
       ELSE IF hits = <<>> THEN Outcome(got.st, None, FALSE, <<>>)
       ELSE delete_result(_save_checkpoints(
                        [(IF has_data THEN rmtree(got.st, checkpoint_id) ELSE got.st)
                            EXCEPT !.cache = Loaded(checkpoints)],
                        remove_from_index(checkpoints, checkpoint_id), 1),
                    IF has_data THEN <<"rmtree">> ELSE <<>>)

delete_checkpoint(st, checkpoint_id) ==
    delete_from(get_checkpoints(st, None, FALSE), checkpoint_id)

\* lines 119-134 of delete_checkpoint and no more: the process is killed after
\* the removal of the data directory, before the index is saved.  The cache
\* goes with the process.
delete_killed_after_rmtree(got, checkpoint_id) ==
    Outcome([(IF checkpoint_id \in got.st.dirs THEN rmtree(got.st, checkpoint_id)
              ELSE got.st) EXCEPT !.cache = NotLoaded],
            "Killed", None,
            IF checkpoint_id \in got.st.dirs THEN <<"rmtree">> ELSE <<>>)

(***************************************************************************)
(* restore_checkpoint                                                      *)
(***************************************************************************)
\* Mutant of backup_session: a backup that exists is kept.
backup_session_once(st, session_path) ==
    IF BackupPath(session_path) \in DOMAIN st.fs THEN st
    ELSE [st EXCEPT !.fs = WriteFile(@, BackupPath(session_path), @[session_path])]

\* shutil.copy2(session_file, backup_path)
backup_session(st, session_path) ==
    [st EXCEPT !.fs = WriteFile(@, BackupPath(session_path), @[session_path])]

\* Mutant of restore_session: the snapshot is appended to the live file.
restore_session_appended(st, checkpoint_id, session_path) ==
    [st EXCEPT !.fs = WriteFile(@, session_path,
                                (IF session_path \in DOMAIN @ THEN @[session_path] ELSE <<>>)
                                   \o st.snapshots[checkpoint_id])]

\* Mutant of restore_session: the copy goes from the live file to the snapshot.
restore_session_swapped(st, checkpoint_id, session_path) ==
    IF session_path \in DOMAIN st.fs
    THEN [st EXCEPT !.snapshots = WriteFile(@, checkpoint_id, st.fs[session_path])]
    ELSE st

\* shutil.copy2(checkpoint_session, session_file)
restore_session(st, checkpoint_id, session_path) ==
    [st EXCEPT !.fs = WriteFile(@, session_path, st.snapshots[checkpoint_id])]

\* Mutant of backup_then_restore: the live file is overwritten first.
restore_then_backup(st, checkpoint_id, session_path) ==
    LET exists == session_path \in DOMAIN st.fs
        st1 == restore_session(st, checkpoint_id, session_path)
    IN [st |-> IF exists THEN backup_session(st1, session_path) ELSE st1,
        writes |-> <<"live">> \o (IF exists THEN <<"backup">> ELSE <<>>)]

\* lines 159-166: the backup of the live file, then the copy of the snapshot over it
backup_then_restore(st, checkpoint_id, session_path) ==
    LET exists == session_path \in DOMAIN st.fs
        st1 == IF exists THEN backup_session(st, session_path) ELSE st
    IN [st |-> restore_session(st1, checkpoint_id, session_path),
        writes |-> (IF exists THEN <<"backup">> ELSE <<>>) \o <<"live">>]

\* lines 150-168 of restore_checkpoint, reached when get_checkpoint returned
restore_from(found, checkpoint_id, session_path) ==
    LET r == backup_then_restore(found.st, checkpoint_id, session_path) IN
    IF found.raised # None THEN found
    ELSE IF found.value = <<>> THEN Outcome(found.st, None, FALSE, <<>>)
    ELSE IF checkpoint_id \notin DOMAIN found.st.snapshots
         THEN Outcome(found.st, None, FALSE, <<>>)
    ELSE IF session_path \in DOMAIN found.st.fs /\ found.st.fault = "backup"
         THEN Outcome(found.st, "OSError", None, <<>>)
    ELSE IF found.st.fault = "live"
         THEN Outcome(IF session_path \in DOMAIN found.st.fs
                      THEN backup_session(found.st, session_path) ELSE found.st,
                      "OSError", None,
                      IF session_path \in DOMAIN found.st.fs THEN <<"backup">> ELSE <<>>)
    ELSE Outcome(r.st, None, TRUE, r.writes)

restore_checkpoint(st, checkpoint_id, session_path) ==
    restore_from(get_checkpoint(st, checkpoint_id), checkpoint_id, session_path)

(***************************************************************************)
(* fork_session                                                            *)
(***************************************************************************)
\* Mutant of retag: only a record that has a session id gets the new one.
retag_if_present(data, new_session_id) ==
    IF data.sessionId = NoField THEN data ELSE [data EXCEPT !.sessionId = new_session_id]

\* data['sessionId'] = new_session_id
retag(data, new_session_id) == [data EXCEPT !.sessionId = new_session_id]

\* The copy loop of fork_session from line i of the snapshot on: a line that
\* json.loads rejects (a blank one too) is skipped.  Item assignment on a JSON
\* value that is not an object raises TypeError, with the lines so far written.
RECURSIVE retag_lines(_, _, _, _)
retag_lines(lines, i, new_session_id, acc) ==
    IF i > Len(lines) THEN [raised |-> None, lines |-> acc]
    ELSE LET data == json_loads(lines[i]) IN
         IF ~data.ok THEN retag_lines(lines, i + 1, new_session_id, acc)
         ELSE IF ~data.isDict THEN [raised |-> "TypeError", lines |-> acc]
         ELSE retag_lines(lines, i + 1, new_session_id,
                          Append(acc, json_dumps(retag(data.value, new_session_id))))

\* Mutant of fork_checkpoint_args: the fork is recorded as a sibling of its
\* source (under the source's parent).
fork_checkpoint_args_sibling(checkpoint, new_session_id, branch_name) ==
    [session_id |-> new_session_id,
     session_path |-> LogPath(new_session_id),
     message_uuid |-> checkpoint.message_uuid,
     name |-> <<"Fork from">> \o checkpoint.name,
     description |-> <<"Forked from checkpoint:">> \o checkpoint.name,
     parent_checkpoint_id |-> checkpoint.parent_checkpoint_id,
     branch_name |-> branch_name]

\* Mutant of fork_checkpoint_args: the fork's checkpoint is taken of the source
\* session's live log instead of the forked log.
fork_checkpoint_args_source_log(checkpoint, new_session_id, branch_name) ==
    [session_id |-> new_session_id,
     session_path |-> LogPath(checkpoint.session_id),
     message_uuid |-> checkpoint.message_uuid,
     name |-> <<"Fork from">> \o checkpoint.name,
     description |-> <<"Forked from checkpoint:">> \o checkpoint.name,
     parent_checkpoint_id |-> checkpoint.checkpoint_id,
     branch_name |-> branch_name]

\* The arguments fork_session gives create_checkpoint (lines 203-211), as the
\* checkpoint they describe but for its id.
fork_checkpoint_args(checkpoint, new_session_id, branch_name) ==
    [session_id |-> new_session_id,
     session_path |-> LogPath(new_session_id),
     message_uuid |-> checkpoint.message_uuid,
     name |-> <<"Fork from">> \o checkpoint.name,
     description |-> <<"Forked from checkpoint:">> \o checkpoint.name,
     parent_checkpoint_id |-> checkpoint.checkpoint_id,
     branch_name |-> branch_name]

\* line 213 of fork_session, reached when create_checkpoint returned
fork_result(made, new_session_path) ==
    IF made.raised # None
    THEN Outcome(made.st, made.raised, <<>>, <<"forked">> \o made.writes)
    ELSE Outcome(made.st, None, new_session_path, <<"forked">> \o made.writes)

\* lines 177-213 of fork_session, reached when get_checkpoint returned
fork_from(found, checkpoint_id, new_session_id, branch_name, ts) ==
    LET checkpoint == found.value[1]
        new_session_path == LogPath(new_session_id)
        cp == retag_lines(found.st.snapshots[checkpoint_id], 1, new_session_id, <<>>)
        st1 == [found.st EXCEPT !.fs = WriteFile(@, new_session_path, cp.lines)]
        a == fork_checkpoint_args(checkpoint, new_session_id, branch_name)
    IN IF found.raised # None THEN Outcome(found.st, found.raised, <<>>, found.writes)
       ELSE IF found.value = <<>> THEN Outcome(found.st, None, <<>>, <<>>)
       ELSE IF checkpoint_id \notin DOMAIN found.st.snapshots
            THEN Outcome(found.st, None, <<>>, <<>>)
       ELSE IF found.st.fault = "forked" THEN Outcome(found.st, "OSError", <<>>, <<>>)
       ELSE IF cp.raised # None THEN Outcome(st1, cp.raised, <<>>, <<"forked">>)
       ELSE fork_result(create_checkpoint(st1, a.session_id, a.session_path, a.message_uuid,
                                     a.name, a.description, a.parent_checkpoint_id,
                                     a.branch_name, ts),
                   new_session_path)

\* Optional[str]: the empty sequence for None, else the path of the new log.
fork_session(st, checkpoint_id, new_session_id, branch_name, ts) ==
    fork_from(get_checkpoint(st, checkpoint_id), checkpoint_id, new_session_id,
              branch_name, ts)

(***************************************************************************)
(* get_timeline                                                            *)
(***************************************************************************)
\* root_checkpoints = [c for c in checkpoints if c.parent_checkpoint_id is None]
root_checkpoints(checkpoints) ==
    FilterSeq(LAMBDA c : c.parent_checkpoint_id = NoId, checkpoints)

RECURSIVE build_tree(_, _)
build_tree(checkpoints, cp) ==
    LET children == FilterSeq(LAMBDA c : c.parent_checkpoint_id = cp.checkpoint_id,
                              checkpoints)
    IN [checkpoint |-> to_dict(cp),
        children |-> [i \in 1..Len(children) |-> build_tree(checkpoints, children[i])]]

\* the dict get_timeline builds from the session's checkpoints
timeline_of(session_id, checkpoints) ==
    LET roots == root_checkpoints(checkpoints)
        named == FilterSeq(LAMBDA c : c.branch_name # None /\ c.branch_name # "", checkpoints)
    IN [session_id |-> session_id,
        total_checkpoints |-> Len(checkpoints),
        branches |-> [i \in 1..Len(named) |-> named[i].branch_name],
        tree |-> [i \in 1..Len(roots) |-> build_tree(checkpoints, roots[i])]]

\* lines 271-287 of get_timeline, reached when get_checkpoints returned
timeline_from(got, session_id) ==
    IF got.raised # None THEN got
    ELSE Outcome(got.st, None, timeline_of(session_id, got.value), got.writes)

get_timeline(st, session_id) ==
    timeline_from(get_checkpoints(st, session_id, FALSE), session_id)

(***************************************************************************)
(* get_diff_between_checkpoints                                            *)
(***************************************************************************)
\* get_checkpoint_messages: the user and assistant records of the snapshot, none
\* when the checkpoint has no snapshot file
get_checkpoint_messages(st, checkpoint_id) ==
    IF checkpoint_id \notin DOMAIN st.snapshots THEN <<>>
    ELSE MapSeq(LAMBDA l : json_loads(l).value,
                FilterSeq(LAMBDA l : json_loads(l).ok /\ json_loads(l).isDict
                                     /\ l.type \in {"user", "assistant"},
                          st.snapshots[checkpoint_id]))

\* Mutant of diff_content: a message of structured content is projected too.
diff_content_all(messages) ==
    MapSeq(LAMBDA m : <<m.type, IF m.content = NoField THEN "" ELSE m.content>>, messages)

\* lines 243-248: "[role]: text..." for each message whose content is a string
\* (the role of a chat record is its type); message.get('content', '') makes
\* the content of a record without one the empty string
diff_content(messages) ==
    MapSeq(LAMBDA m : <<m.type, IF m.content = NoField THEN "" ELSE m.content>>,
           FilterSeq(LAMBDA m : m.content # "structured", messages))

\* Mutant of unified_diff: the two file headers are produced for equal inputs too.
unified_diff_headers(a, b, fromfile, tofile) ==
    <<<<"---", fromfile>>, <<"+++", tofile>>>>

\* difflib.unified_diff: nothing for equal sequences, else the two file headers
\* and the hunk of removed and added lines
unified_diff(a, b, fromfile, tofile) ==
    IF a = b THEN <<>>
    ELSE <<<<"---", fromfile>>, <<"+++", tofile>>>>
            \o MapSeq(LAMBDA x : <<"-", x>>, a) \o MapSeq(LAMBDA x : <<"+", x>>, b)

get_diff_between_checkpoints(st, checkpoint_id_1, checkpoint_id_2) ==
    Outcome(st, None,
            unified_diff(diff_content(get_checkpoint_messages(st, checkpoint_id_1)),
                         diff_content(get_checkpoint_messages(st, checkpoint_id_2)),
                         checkpoint_id_1, checkpoint_id_2),
            <<>>)

(***************************************************************************)
(* AgentManager: the stored agent runs                                     *)
(***************************************************************************)
\* Python lists are objects: lists[i] is the content of the i-th list made,
\* _runs and each thread's local variable runs hold the number of a list (0 for
\* None).  An element of a list is either the AgentRun object run_agent made
\* for a run (its status is status[run_id], whoever changes it) or a copy
\* that from_dict made of a stored record.
KeptRuns == 100

\* AgentManager.__init__, with no agent_runs.json on disk and no run started
NewAgentManager ==
    [runs_file |-> [exists |-> FALSE, data |-> <<>>],
     lists |-> <<>>,
     _runs |-> 0,
     status |-> [r \in 1..MaxRuns |-> None],
     pc |-> [r \in 1..MaxRuns |-> "idle"],
     runs |-> [r \in 1..MaxRuns |-> 0]]

\* AgentRun.to_dict of an element of a list
AgentRun_to_dict(a, run) ==
    [run_id |-> run.run_id,
     status |-> IF run.copy THEN run.status ELSE a.status[run.run_id]]

\* AgentRun.from_dict
AgentRun_from_dict(data) == [run_id |-> data.run_id, copy |-> TRUE, status |-> data.status]

\* get_runs: the cached list unless there is none or force_refresh; else a new
\* list of copies of the stored records (empty when the file cannot be read),
\* which becomes _runs
get_runs(a, force_refresh) ==
    IF a._runs # 0 /\ ~force_refresh THEN [a |-> a, runs |-> a._runs]
    ELSE [a |-> [a EXCEPT !.lists = Append(@, MapSeq(AgentRun_from_dict, a.runs_file.data)),
                          !._runs = Len(a.lists) + 1],
          runs |-> Len(a.lists) + 1]

\* _save_runs: a new list, sorted by started descending (runs are numbered in
\* the order they are started) and cut to the first KeptRuns, is written to the
\* file as a whole and becomes _runs
_save_runs(a, runs) ==
    LET sorted == SortSeq(a.lists[runs], LAMBDA x, y : x.run_id > y.run_id)
        kept == SubSeq(sorted, 1, IF Len(sorted) < KeptRuns THEN Len(sorted) ELSE KeptRuns)
    IN [a EXCEPT !.runs_file = [exists |-> TRUE,
                                data |-> MapSeq(LAMBDA run : AgentRun_to_dict(a, run), kept)],
                 !.lists = Append(@, kept),
                 !._runs = Len(a.lists) + 1]

(***************************************************************************)
(* State machine: direct calls of the CheckpointManager methods             *)
(***************************************************************************)
Args(id, sid, path, uuid, parent, branch) ==
    [checkpoint_id |-> id, session_id |-> sid, session_path |-> path,
     message_uuid |-> uuid, parent_checkpoint_id |-> parent, branch_name |-> branch]

NoArgs == Args(NoId, None, <<>>, None, NoId, None)

\* What a call found: the index file and the file at its path argument.
Found(args) ==
    [indexExists |-> indexFile.exists, index |-> indexFile.data,
     exists |-> args.session_path \in DOMAIN fs,
     file |-> IF args.session_path \in DOMAIN fs THEN fs[args.session_path] ELSE <<>>]

\* A call's record: result is <<value>> when the call returned, <<>> when it raised.
Call(op, args, out) ==
    [op |-> op, args |-> args, pre |-> Found(args), raised |-> out.raised,
     result |-> IF out.raised = None THEN <<out.value>> ELSE <<>>,
     writes |-> out.writes]

\* The record of a step that is no call of the store.
Note(op) ==
    [op |-> op, args |-> NoArgs, pre |-> Found(NoArgs), raised |-> None, result |-> <<>>,
     writes |-> <<>>]

\* (the fault of a call ends with the call: it is no part of the state)
Commit(st) ==
    /\ fs' = st.fs
    /\ indexFile' = st.indexFile
    /\ cache' = st.cache
    /\ rootDir' = st.rootDir
    /\ dirs' = st.dirs
    /\ snapshots' = st.snapshots
    /\ nextId' = st.nextId

\* the name a caller types for a checkpoint, and its (empty) description
UserName == <<"cp">>
UserDescription == <<>>

\* ids of the checkpoints in the index file: the parents a caller of
\* create_checkpoint names (the panel passes the checkpoint it has selected)
IndexIds == {indexFile.data[i].checkpoint_id : i \in 1..Len(indexFile.data)}

InitStore(log, index, root) ==
    /\ fs = [p \in {LogPath("s1")} |-> log]
    /\ indexFile = index
    /\ rootDir = root
    /\ cache = NotLoaded
    /\ dirs = {}
    /\ snapshots = [i \in {} |-> <<>>]
    /\ nextId = 1
    /\ now = 0
    /\ lastOp = [op |-> "init", args |-> NoArgs,
                 pre |-> [indexExists |-> index.exists, index |-> index.data,
                          exists |-> FALSE, file |-> <<>>],
                 raised |-> None, result |-> <<>>, writes |-> <<>>]
    /\ forkCreated = {}
    /\ deletedIds = {}
    /\ otherCache = NotLoaded
    /\ agents = NewAgentManager
    /\ current_session = None
    /\ current_checkpoint = NoId

\* The assistant process appends a line to a session's log.
AppendLine(sid, line) ==
    /\ LogPath(sid) \in DOMAIN fs
    /\ fs' = [fs EXCEPT ![LogPath(sid)] = Append(@, line)]
    /\ lastOp' = Note("append")
    /\ UNCHANGED <<indexFile, cache, rootDir, dirs, snapshots, nextId, now, agents, otherCache,
                   forkCreated, deletedIds, panelVars>>

\* A call of the store: what it leaves in the store, and its record.
Apply(op, args, out) ==
    /\ Commit(out.st)
    /\ lastOp' = Call(op, args, out)

GetCheckpoints(sid, force_refresh) ==
    /\ Apply("get_checkpoints", Args(NoId, sid, <<>>, None, NoId, None),
             get_checkpoints(Store, sid, force_refresh))
    /\ UNCHANGED <<now, agents, otherCache, forkCreated, deletedIds, panelVars>>

Create(sid, uuid, parent, branch) ==
    /\ Apply("create", Args(NoId, sid, LogPath(sid), uuid, parent, branch),
             create_checkpoint(Store, sid, LogPath(sid), uuid, UserName, UserDescription,
                               parent, branch, now))
    /\ UNCHANGED <<now, agents, otherCache, forkCreated, deletedIds, panelVars>>

Delete(id) ==
    /\ Apply("delete", Args(id, None, <<>>, None, NoId, None), delete_checkpoint(Store, id))
    /\ forkCreated' = IF lastOp'.result = <<TRUE>> THEN forkCreated \ {id} ELSE forkCreated
    /\ deletedIds' = IF lastOp'.result = <<TRUE>> THEN deletedIds \cup {id} ELSE deletedIds
    /\ UNCHANGED <<now, agents, otherCache, panelVars>>

Restore(id, sid) ==
    /\ Apply("restore", Args(id, sid, LogPath(sid), None, NoId, None),
             restore_checkpoint(Store, id, LogPath(sid)))
    /\ UNCHANGED <<now, agents, otherCache, forkCreated, deletedIds, panelVars>>

Fork(id, new_sid, branch) ==
    /\ Apply("fork", Args(id, new_sid, LogPath(new_sid), None, NoId, branch),
             fork_session(Store, id, new_sid, branch, now))
    /\ forkCreated' = IF lastOp'.result \notin {<<>>, << <<>> >>}
                      THEN forkCreated \cup {nextId} ELSE forkCreated
    /\ UNCHANGED deletedIds
    /\ UNCHANGED <<now, agents, otherCache, panelVars>>

\* A second manager on the same checkpoints directory (another window or
\* process): the same files, its own _checkpoints.
OtherStore == [Store EXCEPT !.cache = otherCache]

ApplyOther(op, args, out) ==
    /\ Commit([out.st EXCEPT !.cache = cache])
    /\ otherCache' = out.st.cache
    /\ lastOp' = Call(op, args, out)

OtherGetCheckpoints(force_refresh) ==
    /\ ApplyOther("other.get_checkpoints", Args(NoId, None, <<>>, None, NoId, None),
                  get_checkpoints(OtherStore, None, force_refresh))
    /\ UNCHANGED <<now, agents, forkCreated, deletedIds, panelVars>>

OtherCreate(sid) ==
    /\ ApplyOther("other.create", Args(NoId, sid, LogPath(sid), "m1", NoId, None),
                  create_checkpoint(OtherStore, sid, LogPath(sid), "m1", UserName,
                                    UserDescription, NoId, None, now))
    /\ UNCHANGED <<now, agents, forkCreated, deletedIds, panelVars>>

OtherDelete(id) ==
    /\ ApplyOther("other.delete", Args(id, None, <<>>, None, NoId, None),
                  delete_checkpoint(OtherStore, id))
    /\ forkCreated' = IF lastOp'.result = <<TRUE>> THEN forkCreated \ {id} ELSE forkCreated
    /\ deletedIds' = IF lastOp'.result = <<TRUE>> THEN deletedIds \cup {id} ELSE deletedIds
    /\ UNCHANGED <<now, agents, panelVars>>

\* get_checkpoints, with its force_refresh argument kept in the call's record
ReadIndex(sid, force_refresh) ==
    /\ Apply("get_checkpoints",
             [force_refresh |-> force_refresh] @@ Args(NoId, sid, <<>>, None, NoId, None),
             get_checkpoints(Store, sid, force_refresh))
    /\ UNCHANGED <<now, agents, otherCache, forkCreated, deletedIds, panelVars>>

\* The text of index.json is damaged outside the manager (a write cut short, an
\* edit by hand).
Corrupt(form) ==
    /\ indexFile.exists
    /\ indexFile' = CorruptIndex(form)
    /\ lastOp' = Note("corrupt")
    /\ UNCHANGED <<fs, cache, rootDir, dirs, snapshots, nextId, now, agents, otherCache, forkCreated,
                   deletedIds, panelVars>>

\* The four operations that write, each with the fault of its call (None: no
\* write fails) kept in the call's record.
FaultyCreate(sid, fault) ==
    /\ Apply("create", [fault |-> fault] @@ Args(NoId, sid, LogPath(sid), "m1", NoId, None),
             create_checkpoint(WithFault(Store, fault), sid, LogPath(sid), "m1", UserName,
                               UserDescription, NoId, None, now))
    /\ UNCHANGED <<now, agents, otherCache, forkCreated, deletedIds, panelVars>>

FaultyDelete(id, fault) ==
    /\ Apply("delete", [fault |-> fault] @@ Args(id, None, <<>>, None, NoId, None),
             delete_checkpoint(WithFault(Store, fault), id))
    /\ forkCreated' = IF lastOp'.result = <<TRUE>> THEN forkCreated \ {id} ELSE forkCreated
    /\ deletedIds' = IF lastOp'.result = <<TRUE>> THEN deletedIds \cup {id} ELSE deletedIds
    /\ UNCHANGED <<now, agents, otherCache, panelVars>>

FaultyRestore(id, sid, fault) ==
    /\ Apply("restore", [fault |-> fault] @@ Args(id, sid, LogPath(sid), None, NoId, None),
             restore_checkpoint(WithFault(Store, fault), id, LogPath(sid)))
    /\ UNCHANGED <<now, agents, otherCache, forkCreated, deletedIds, panelVars>>

FaultyFork(id, new_sid, fault) ==
    /\ Apply("fork", [fault |-> fault] @@ Args(id, new_sid, LogPath(new_sid), None, NoId, "fork"),
             fork_session(WithFault(Store, fault), id, new_sid, "fork", now))
    /\ forkCreated' = IF lastOp'.result \notin {<<>>, << <<>> >>}
                      THEN forkCreated \cup {nextId} ELSE forkCreated
    /\ UNCHANGED <<now, agents, otherCache, deletedIds, panelVars>>

GetTimeline(sid) ==
    /\ Apply("get_timeline", Args(NoId, sid, <<>>, None, NoId, None),
             get_timeline(Store, sid))
    /\ UNCHANGED <<now, agents, otherCache, forkCreated, deletedIds, panelVars>>

GetDiff(id_1, id_2) ==
    /\ Apply("diff", [checkpoint_id_2 |-> id_2] @@ Args(id_1, None, <<>>, None, NoId, None),
             get_diff_between_checkpoints(Store, id_1, id_2))
    /\ UNCHANGED <<now, agents, otherCache, forkCreated, deletedIds, panelVars>>

\* delete_checkpoint of a checkpoint of the index, killed between its two
\* filesystem steps
DeleteInterrupted(id) ==
    /\ indexFile.exists
    /\ id \in IndexIds
    /\ Apply("delete_interrupted", Args(id, None, <<>>, None, NoId, None),
             delete_killed_after_rmtree(get_checkpoints(Store, None, FALSE), id))
    /\ UNCHANGED <<now, agents, otherCache, forkCreated, deletedIds, panelVars>>

(***************************************************************************)
(* Spec: the index under create, fork, delete, load and timeline calls.     *)
(* Session s1 has a two-record log; the index file may be absent at start.  *)
(***************************************************************************)
Init ==
    \/ InitStore(<<UserLine, AssistantLine>>, MissingFile, FALSE)
    \/ InitStore(<<UserLine, AssistantLine>>, MissingFile, TRUE)
    \/ InitStore(<<UserLine, AssistantLine>>, IndexOf(<<>>), TRUE)

Next ==
    \/ \E sid \in SessionIds \cup {None}, force \in BOOLEAN : GetCheckpoints(sid, force)
    \/ \E sid \in SessionIds, branch \in BranchNames :
          \E parent \in IndexIds \cup {NoId} :
             nextId <= MaxCheckpoints /\ Create(sid, "m1", parent, branch)
    \/ \E id \in CheckpointIds : Delete(id)
    \/ \E id \in CheckpointIds, new_sid \in SessionIds :
          nextId <= MaxCheckpoints /\ Fork(id, new_sid, "fork")
    \/ \E sid \in SessionIds : GetTimeline(sid)

Spec == Init /\ [][Next]_vars

(***************************************************************************)
(* SpecLog: create_checkpoint over logs of every kind of line.              *)
(***************************************************************************)
InitLog == InitStore(<<>>, IndexOf(<<>>), TRUE)

NextLog ==
    \/ \E sid \in SessionIds, line \in Lines :
          /\ LogPath(sid) \in DOMAIN fs
          /\ Len(fs[LogPath(sid)]) < MaxLen
          /\ AppendLine(sid, line)
    \/ \E sid \in SessionIds, uuid \in Uuids :
          nextId <= MaxLogCheckpoints /\ Create(sid, uuid, NoId, None)

SpecLog == InitLog /\ [][NextLog]_vars

(***************************************************************************)
(* SpecRestore: live logs and their backups under appended lines, create    *)
(* and restore.                                                            *)
(***************************************************************************)
InitRestore == InitStore(<<>>, IndexOf(<<>>), TRUE)

NextRestore ==
    \/ \E sid \in SessionIds, line \in RestoreLines :
          /\ LogPath(sid) \in DOMAIN fs
          /\ Len(fs[LogPath(sid)]) < MaxRestoreLen
          /\ AppendLine(sid, line)
    \/ \E sid \in SessionIds :
          nextId <= MaxRestoreCheckpoints /\ Create(sid, "m2", NoId, None)
    \/ \E id \in RestoreCheckpointIds, sid \in SessionIds : Restore(id, sid)

SpecRestore == InitRestore /\ [][NextRestore]_vars

(***************************************************************************)
(* SpecFork: snapshots and forked logs under appended lines, create and     *)
(* fork.                                                                   *)
(***************************************************************************)
InitFork == InitStore(<<>>, IndexOf(<<>>), TRUE)

NextFork ==
    \/ \E sid \in SessionIds, line \in ForkLines :
          /\ LogPath(sid) \in DOMAIN fs
          /\ Len(fs[LogPath(sid)]) < MaxForkLen
          /\ AppendLine(sid, line)
    \/ \E sid \in SessionIds, uuid \in Uuids :
          nextId <= MaxForkCheckpoints /\ Create(sid, uuid, NoId, None)
    \/ \E id \in ForkCheckpointIds, new_sid \in SessionIds :
          nextId <= MaxForkCheckpoints /\ Fork(id, new_sid, "fork")

SpecFork == InitFork /\ [][NextFork]_vars

(***************************************************************************)
(* SpecPanel: the store as the timeline panel drives it                     *)
(***************************************************************************)
\* the sessions the session combo lists (the entries of sessions-index.json)
PanelSessions == {"s1", "s2"}
\* uuid.uuid4() of TimelinePanel.fork_session
PanelForkIds == {"f1"}

\* SessionManager.get_session_messages with Message.from_dict: the uuids of the
\* user and assistant records of the log, '' for a record without one.
session_message_uuids(lines) ==
    LET chat == FilterSeq(LAMBDA l : json_loads(l).ok /\ json_loads(l).isDict
                                     /\ l.type \in {"user", "assistant"}, lines)
    IN [i \in 1..Len(chat) |-> IF chat[i].uuid = NoField THEN "" ELSE chat[i].uuid]

\* the checkpoints refresh_timeline puts in the tree
TreeItems ==
    IF current_session = None \/ ~cache.loaded THEN {}
    ELSE {cache.list[i].checkpoint_id :
            i \in {j \in 1..Len(cache.list) : cache.list[j].session_id = current_session}}

\* on_session_changed, with the refresh_timeline it ends with
on_session_changed(session) ==
    /\ current_session' = session
    /\ Commit(IF session = None THEN Store ELSE get_checkpoints(Store, session, FALSE).st)
    /\ lastOp' = Note("on_session_changed")
    /\ UNCHANGED <<current_checkpoint, now, agents, otherCache, forkCreated, deletedIds>>

on_checkpoint_selected(id) ==
    /\ id \in TreeItems
    /\ current_checkpoint' = id
    /\ lastOp' = Note("on_checkpoint_selected")
    /\ UNCHANGED <<storeVars, current_session, now, agents, otherCache, forkCreated, deletedIds>>

PanelCreate(branch) ==
    LET messages == session_message_uuids(fs[LogPath(current_session)]) IN
    /\ current_session # None
    /\ LogPath(current_session) \in DOMAIN fs
    /\ messages # <<>>
    /\ Apply("create",
             Args(NoId, current_session, LogPath(current_session),
                  messages[Len(messages)], current_checkpoint, branch),
             create_checkpoint(Store, current_session, LogPath(current_session),
                               messages[Len(messages)], UserName, UserDescription,
                               current_checkpoint, branch, now))
    /\ UNCHANGED <<panelVars, now, agents, otherCache, forkCreated, deletedIds>>

PanelRestore ==
    /\ current_checkpoint # NoId
    /\ current_session # None
    /\ Apply("restore",
             Args(current_checkpoint, current_session, LogPath(current_session), None,
                  NoId, None),
             restore_checkpoint(Store, current_checkpoint, LogPath(current_session)))
    /\ UNCHANGED <<panelVars, now, agents, otherCache, forkCreated, deletedIds>>

\* fork_session of the panel; self.refresh() re-fills the session combo, which
\* leaves its placeholder entry selected
PanelFork(new_sid) ==
    /\ current_checkpoint # NoId
    /\ current_session # None
    /\ LogPath(new_sid) \notin DOMAIN fs
    /\ Apply("fork", Args(current_checkpoint, new_sid, LogPath(new_sid), None, NoId, "fork"),
             fork_session(Store, current_checkpoint, new_sid, "fork", now))
    /\ forkCreated' = IF lastOp'.result \notin {<<>>, << <<>> >>}
                      THEN forkCreated \cup {nextId} ELSE forkCreated
    /\ UNCHANGED deletedIds
    /\ current_session' = IF lastOp'.result \notin {<<>>, << <<>> >>}
                          THEN None ELSE current_session
    /\ UNCHANGED <<current_checkpoint, now, agents, otherCache>>

PanelDelete ==
    /\ current_checkpoint # NoId
    /\ Apply("delete", Args(current_checkpoint, None, <<>>, None, NoId, None),
             delete_checkpoint(Store, current_checkpoint))
    /\ forkCreated' = IF lastOp'.result = <<TRUE>>
                      THEN forkCreated \ {current_checkpoint} ELSE forkCreated
    /\ deletedIds' = IF lastOp'.result = <<TRUE>>
                     THEN deletedIds \cup {current_checkpoint} ELSE deletedIds
    /\ current_checkpoint' = IF lastOp'.result = <<TRUE>> THEN NoId ELSE current_checkpoint
    /\ UNCHANGED <<current_session, now, agents, otherCache>>

InitPanel ==
    /\ fs = [p \in {LogPath(sid) : sid \in PanelSessions} |-> <<UserLine, SummaryLine>>]
    /\ indexFile = IndexOf(<<>>)
    /\ rootDir = TRUE
    /\ cache = NotLoaded
    /\ dirs = {}
    /\ snapshots = [i \in {} |-> <<>>]
    /\ nextId = 1
    /\ now = 0
    /\ lastOp = [op |-> "init", args |-> NoArgs,
                 pre |-> [indexExists |-> TRUE, index |-> <<>>, exists |-> FALSE,
                          file |-> <<>>],
                 raised |-> None, result |-> <<>>, writes |-> <<>>]
    /\ forkCreated = {}
    /\ deletedIds = {}
    /\ otherCache = NotLoaded
    /\ agents = NewAgentManager
    /\ current_session = None
    /\ current_checkpoint = NoId

NextPanel ==
    \/ \E session \in PanelSessions \cup {None} : on_session_changed(session)
    \/ \E id \in 1..MaxPanelCheckpoints : on_checkpoint_selected(id)
    \/ \E branch \in BranchNames : nextId <= MaxPanelCheckpoints /\ PanelCreate(branch)
    \/ PanelRestore
    \/ \E new_sid \in PanelForkIds : nextId <= MaxPanelCheckpoints /\ PanelFork(new_sid)
    \/ PanelDelete

SpecPanel == InitPanel /\ [][NextPanel]_vars

(***************************************************************************)
(* SpecParent: create_checkpoint called with the id of any checkpoint the   *)
(* caller has seen, still in the index or deleted since.                    *)
(***************************************************************************)
ParentCheckpointIds == 1..MaxParentCheckpoints

\* the ids uuid4 has handed out: those a caller can hold
IssuedIds == 1..(nextId - 1)

InitParent == InitStore(<<UserLine, AssistantLine>>, IndexOf(<<>>), TRUE)

NextParent ==
    \/ \E sid \in SessionIds, parent \in IssuedIds \cup {NoId} :
          nextId <= MaxParentCheckpoints /\ Create(sid, "m1", parent, None)
    \/ \E id \in ParentCheckpointIds : Delete(id)
    \/ \E id \in ParentCheckpointIds, new_sid \in SessionIds :
          nextId <= MaxParentCheckpoints /\ Fork(id, new_sid, "fork")

SpecParent == InitParent /\ [][NextParent]_vars

(***************************************************************************)
(* SpecStore: create, delete, restore and fork on checkpoints with and      *)
(* without a snapshot.  Session s1 has a log, session s2 has none until a   *)
(* fork writes it; the index file may be absent at start.                   *)
(***************************************************************************)
StoreCheckpointIds == 1..MaxStoreCheckpoints

InitStoreOps ==
    \/ InitStore(<<UserLine, AssistantLine>>, MissingFile, FALSE)
    \/ InitStore(<<UserLine, AssistantLine>>, IndexOf(<<>>), TRUE)

NextStore ==
    \/ \E sid \in SessionIds :
          nextId <= MaxStoreCheckpoints /\ Create(sid, "m1", NoId, None)
    \/ \E id \in StoreCheckpointIds : Delete(id)
    \/ \E id \in StoreCheckpointIds, sid \in SessionIds : Restore(id, sid)
    \/ \E id \in StoreCheckpointIds :
          nextId <= MaxStoreCheckpoints /\ Fork(id, "s2", "fork")

SpecStore == InitStoreOps /\ [][NextStore]_vars

(***************************************************************************)
(* SpecSnapshot: the snapshots under every operation of the store, while    *)
(* the assistant's reply is appended to the log of session s1.              *)
(***************************************************************************)
SnapshotCheckpointIds == 1..MaxSnapshotCheckpoints

InitSnapshot == InitStore(<<UserLine>>, IndexOf(<<>>), TRUE)

NextSnapshot ==
    \/ (\A i \in 1..Len(fs[LogPath("s1")]) : fs[LogPath("s1")][i] # AssistantLine)
          /\ AppendLine("s1", AssistantLine)
    \/ nextId <= MaxSnapshotCheckpoints /\ Create("s1", "m2", NoId, None)
    \/ \E id \in SnapshotCheckpointIds : Delete(id)
    \/ \E id \in SnapshotCheckpointIds : Restore(id, "s1")
    \/ \E id \in SnapshotCheckpointIds :
          nextId <= MaxSnapshotCheckpoints /\ Fork(id, "s2", "fork")
    \/ \E id_1, id_2 \in SnapshotCheckpointIds : GetDiff(id_1, id_2)
    \/ GetTimeline("s1")

SpecSnapshot == InitSnapshot /\ [][NextSnapshot]_vars

(***************************************************************************)
(* SpecCrash: create and delete, with deletes that are killed between the   *)
(* removal of the data directory and the save of the index.                 *)
(***************************************************************************)
CrashCheckpointIds == 1..MaxCrashCheckpoints

InitCrash == InitStore(<<UserLine, AssistantLine>>, IndexOf(<<>>), TRUE)

NextCrash ==
    \/ \E parent \in IndexIds \cup {NoId} :
          nextId <= MaxCrashCheckpoints /\ Create("s1", "m1", parent, None)
    \/ \E id \in CrashCheckpointIds : Delete(id)
    \/ \E id \in CrashCheckpointIds : DeleteInterrupted(id)

SpecCrash == InitCrash /\ [][NextCrash]_vars

(***************************************************************************)
(* SpecMeta: the metadata of the checkpoints under create, delete, restore, *)
(* fork and reloads of the index, while the clock advances.                 *)
(***************************************************************************)
\* datetime.now() returns a later time
Tick ==
    /\ now < MaxMetaTime
    /\ now' = now + 1
    /\ lastOp' = Note("tick")
    /\ UNCHANGED <<storeVars, otherCache, agents, forkCreated, deletedIds, panelVars>>

\* datetime.now() is the naive local time: it steps back when the local clock
\* does (end of daylight saving time, a clock adjustment).
ClockSetBack ==
    /\ now > 0
    /\ now' = now - 1
    /\ lastOp' = Note("clock_set_back")
    /\ UNCHANGED <<storeVars, otherCache, agents, forkCreated, deletedIds, panelVars>>

InitMeta == InitStore(<<UserLine, AssistantLine>>, IndexOf(<<>>), TRUE)

NextMeta ==
    \/ nextId <= MaxMetaCheckpoints /\ Tick
    \/ \E parent \in IndexIds \cup {NoId} :
          nextId <= MaxMetaCheckpoints /\ Create("s1", "m1", parent, "dev")
    \/ \E id \in 1..MaxMetaCheckpoints : Delete(id)
    \/ \E id \in 1..MaxMetaCheckpoints : Restore(id, "s1")
    \/ \E id \in 1..MaxMetaCheckpoints :
          nextId <= MaxMetaCheckpoints /\ Fork(id, "s2", "fork")
    \/ GetCheckpoints(None, TRUE)

SpecMeta == InitMeta /\ [][NextMeta]_vars

(***************************************************************************)
(* SpecCorrupt: loads of the index, create and delete while the text of the *)
(* index file may be damaged.                                              *)
(***************************************************************************)
InitCorrupt == InitStore(<<UserLine, AssistantLine>>, IndexOf(<<>>), TRUE)

NextCorrupt ==
    \/ \E form \in CorruptForms : indexFile.form = "array" /\ Corrupt(form)
    \/ \E sid \in {"s1", None}, force_refresh \in BOOLEAN : ReadIndex(sid, force_refresh)
    \/ nextId <= MaxCorruptCheckpoints /\ Create("s1", "m1", NoId, None)
    \/ \E id \in 1..MaxCorruptCheckpoints : Delete(id)

SpecCorrupt == InitCorrupt /\ [][NextCorrupt]_vars

(***************************************************************************)
(* SpecFault: create, delete, restore and fork in a single manager, where   *)
(* any call may find one of its files refused for writing.                  *)
(***************************************************************************)
InitFault == InitStore(<<UserLine, AssistantLine>>, IndexOf(<<>>), TRUE)

NextFault ==
    \/ \E fault \in Faults \cup {None} :
          nextId <= MaxFaultCheckpoints /\ FaultyCreate("s1", fault)
    \/ \E id \in 1..MaxFaultCheckpoints, fault \in Faults \cup {None} :
          FaultyDelete(id, fault)
    \/ \E id \in 1..MaxFaultCheckpoints, fault \in Faults \cup {None} :
          FaultyRestore(id, "s1", fault)
    \/ \E id \in 1..MaxFaultCheckpoints, fault \in Faults \cup {None} :
          nextId <= MaxFaultCheckpoints /\ FaultyFork(id, "s2", fault)
    \/ ReadIndex(None, FALSE)

SpecFault == InitFault /\ [][NextFault]_vars

(***************************************************************************)
(* SpecShared: two managers on the same checkpoints directory, each with    *)
(* its own cached list, loading, creating, deleting and diffing in any     *)
(* order.                                                                  *)
(***************************************************************************)
InitShared == InitStore(<<UserLine, AssistantLine>>, IndexOf(<<>>), TRUE)

NextShared ==
    \/ \E sid \in {"s1", None}, force_refresh \in BOOLEAN : ReadIndex(sid, force_refresh)
    \/ nextId <= MaxSharedCheckpoints /\ Create("s1", "m1", NoId, None)
    \/ \E id \in 1..MaxSharedCheckpoints : Delete(id)
    \/ \E force_refresh \in BOOLEAN : OtherGetCheckpoints(force_refresh)
    \/ \E sid \in SessionIds : nextId <= MaxSharedCheckpoints /\ OtherCreate(sid)
    \/ \E id \in 1..MaxSharedCheckpoints : OtherDelete(id)
    \/ \E id_1, id_2 \in 1..MaxSharedCheckpoints : GetDiff(id_1, id_2)

SpecShared == InitShared /\ [][NextShared]_vars

(***************************************************************************)
(* SpecDiff: diffs between the snapshots taken of a growing log of chat     *)
(* records and other records; session s2 has no log, so its checkpoints     *)
(* have no snapshot.                                                        *)
(***************************************************************************)
InitDiff == InitStore(<<UserLine>>, IndexOf(<<>>), TRUE)

NextDiff ==
    \/ \E line \in {AssistantLine, SummaryLine, ReplyLine, EmptyChatLine} :
          Len(fs[LogPath("s1")]) < MaxDiffLen /\ AppendLine("s1", line)
    \/ \E sid \in SessionIds :
          nextId <= MaxDiffCheckpoints /\ Create(sid, "m0", NoId, None)
    \/ \E id_1, id_2 \in 1..MaxDiffCheckpoints : GetDiff(id_1, id_2)

SpecDiff == InitDiff /\ [][NextDiff]_vars

(***************************************************************************)
(* SpecClock: timelines over an index built by create, fork and delete      *)
(* while the local clock advances and steps back.                           *)
(***************************************************************************)
NextClock ==
    \/ nextId <= MaxClockCheckpoints /\ Tick
    \/ nextId <= MaxClockCheckpoints /\ ClockSetBack
    \/ \E parent \in IndexIds \cup {NoId} :
          nextId <= MaxClockCheckpoints /\ Create("s1", "m1", parent, None)
    \/ \E id \in 1..MaxClockCheckpoints : Delete(id)
    \/ \E id \in 1..MaxClockCheckpoints, new_sid \in SessionIds :
          nextId <= MaxClockCheckpoints /\ Fork(id, new_sid, "fork")
    \/ \E sid \in SessionIds : GetTimeline(sid)

SpecClock == InitMeta /\ [][NextClock]_vars

(***************************************************************************)
(* SpecAgents: runs of agents, each on a thread of its own (a worker thread *)
(* or the caller and then a background thread), interleaved statement by    *)
(* statement; a read or a write of agent_runs.json is one step.             *)
(***************************************************************************)
\* run_agent for the r-th run started: the new AgentRun and runs = get_runs()
\* (lines 138-148), runs.append(run) (line 149), _save_runs(runs) (line 150)
run_agent(r) ==
    /\ \/ /\ agents.pc[r] = "idle"
          /\ \A q \in 1..(r - 1) : agents.pc[q] # "idle"
          /\ LET got == get_runs([agents EXCEPT !.status[r] = "running"], FALSE) IN
             agents' = [got.a EXCEPT !.runs[r] = got.runs, !.pc[r] = "append"]
       \/ /\ agents.pc[r] = "append"
          /\ agents' = [agents EXCEPT
                           !.lists[agents.runs[r]] =
                               Append(@, [run_id |-> r, copy |-> FALSE, status |-> None]),
                           !.pc[r] = "save"]
       \/ /\ agents.pc[r] = "save"
          /\ agents' = [_save_runs(agents, agents.runs[r]) EXCEPT !.pc[r] = "execute"]
    /\ lastOp' = Note("run_agent")
    /\ UNCHANGED <<storeVars, now, otherCache, forkCreated, deletedIds, panelVars>>

\* _execute_agent for run r: the subprocess ends and sets run.status (lines
\* 176-211), then the finally block: runs = get_runs(force_refresh=True) (line
\* 219), the loop that puts run in the place of its record (lines 220-223),
\* _save_runs(runs) (line 224)
_execute_agent(r) ==
    /\ \/ /\ agents.pc[r] = "execute"
          /\ \E status \in {"completed", "failed"} :
                agents' = [agents EXCEPT !.status[r] = status, !.pc[r] = "refresh"]
       \/ /\ agents.pc[r] = "refresh"
          /\ LET got == get_runs(agents, TRUE) IN
             agents' = [got.a EXCEPT !.runs[r] = got.runs, !.pc[r] = "replace"]
       \/ /\ agents.pc[r] = "replace"
          /\ LET runs == agents.lists[agents.runs[r]]
                 hits == {i \in 1..Len(runs) : runs[i].run_id = r}
             IN agents' = [agents EXCEPT
                              !.lists[agents.runs[r]] =
                                  IF hits = {} THEN @
                                  ELSE [@ EXCEPT ![CHOOSE i \in hits : \A j \in hits : i <= j] =
                                           [run_id |-> r, copy |-> FALSE, status |-> None]],
                              !.pc[r] = "write"]
       \/ /\ agents.pc[r] = "write"
          /\ agents' = [_save_runs(agents, agents.runs[r]) EXCEPT !.pc[r] = "done"]
    /\ lastOp' = Note("_execute_agent")
    /\ UNCHANGED <<storeVars, now, otherCache, forkCreated, deletedIds, panelVars>>

InitAgents == InitStore(<<>>, IndexOf(<<>>), TRUE)

NextAgents ==
    \/ \E r \in 1..MaxRuns : run_agent(r)
    \/ \E r \in 1..MaxRuns : _execute_agent(r)

SpecAgents == InitAgents /\ [][NextAgents]_vars

(***************************************************************************)
(* Properties                                                              *)
(***************************************************************************)
Returned(op) == lastOp.op = op /\ lastOp.raised = None

\* the positions of a sequence that satisfy a test on the element
Positions(Test(_), seq) == {i \in 1..Len(seq) : Test(seq[i])}

IdsOf(checkpoints) == {checkpoints[i].checkpoint_id : i \in 1..Len(checkpoints)}

\* the entry of a checkpoint id in a sequence of checkpoints that holds it
EntryOf(checkpoints, id) ==
    checkpoints[CHOOSE i \in 1..Len(checkpoints) : checkpoints[i].checkpoint_id = id]

\* the fields of an object line
RecordOf(line) ==
    [uuid |-> line.uuid, type |-> line.type, sessionId |-> line.sessionId,
     content |-> line.content]

----------------------------------------------------------------------------
\* C1: when restore_checkpoint succeeds and a live session file existed at the
\* path, the backup file next to it holds exactly the content the live file had
\* just before the restore, and the backup is written before the live file.
C1_BackupHoldsPreRestoreContent ==
    (Returned("restore") /\ lastOp.result = <<TRUE>> /\ lastOp.pre.exists) =>
        LET backup == BackupPath(lastOp.args.session_path) IN
        /\ backup \in DOMAIN fs
        /\ fs[backup] = lastOp.pre.file
        /\ lastOp.writes = <<"backup", "live">>

\* A restore over a live file whose content was not the snapshot's.
C1_Witness ==
    /\ Returned("restore") /\ lastOp.result = <<TRUE>> /\ lastOp.pre.exists
    /\ lastOp.pre.file # snapshots[lastOp.args.checkpoint_id]
    /\ fs[lastOp.args.session_path] = snapshots[lastOp.args.checkpoint_id]
    /\ Len(lastOp.pre.file) = 2

----------------------------------------------------------------------------
----------------------------------------------------------------------------
\* The records the claim describes: the object lines among the lines up to the
\* first object line whose uuid is the target (all lines when there is none).
ExpectedSnapshot(lines, message_uuid) ==
    LET hits == Positions(LAMBDA l : l.kind = "obj" /\ l.uuid = message_uuid, lines)
        last == IF hits = {} THEN Len(lines)
                ELSE CHOOSE i \in hits : \A j \in hits : i <= j
        kept == FilterSeq(LAMBDA l : l.kind = "obj", SubSeq(lines, 1, last))
    IN [i \in 1..Len(kept) |-> RecordOf(kept[i])]

\* C3: for a session log that exists, the snapshot create_checkpoint writes
\* holds, in log order, exactly the parseable records from the first line
\* through the first record whose uuid is message_uuid, lines that fail to
\* parse being skipped; every parseable record when no record has that uuid.
C3_SnapshotIsLogPrefix ==
    (Returned("create") /\ lastOp.pre.exists) =>
        LET id == lastOp.result[1].checkpoint_id IN
        /\ id \in DOMAIN snapshots
        /\ \A i \in 1..Len(snapshots[id]) : snapshots[id][i].kind = "obj"
        /\ [i \in 1..Len(snapshots[id]) |-> RecordOf(snapshots[id][i])]
              = ExpectedSnapshot(lastOp.pre.file, lastOp.args.message_uuid)

\* A create over a log with an unparseable line before the target record and a
\* record after it.
C3_Witness ==
    /\ Returned("create") /\ lastOp.pre.exists
    /\ Len(lastOp.pre.file) = 3
    /\ lastOp.pre.file[1].kind = "garbage"
    /\ lastOp.pre.file[2].uuid = lastOp.args.message_uuid
    /\ lastOp.pre.file[3].kind = "obj"
    /\ Len(snapshots[lastOp.result[1].checkpoint_id]) = 1

----------------------------------------------------------------------------
\* C4: after create_checkpoint returns a checkpoint of session s,
\* get_checkpoints(s) holds exactly one entry with its checkpoint_id, whatever
\* creates, forks and deletes came before.
C4_CreatedCheckpointListedOnce ==
    Returned("create") =>
        LET c == lastOp.result[1]
            got == get_checkpoints(Store, c.session_id, FALSE)
        IN /\ got.raised = None
           /\ Cardinality(Positions(LAMBDA x : x.checkpoint_id = c.checkpoint_id,
                                    got.value)) = 1

\* A create after a fork and a delete, into an index that holds other entries.
C4_Witness ==
    /\ Returned("create")
    /\ forkCreated # {}
    /\ Len(indexFile.data) >= 2
    /\ Len(indexFile.data) < nextId - 1

----------------------------------------------------------------------------
\* C5: when the index file does not exist, the load of the store (the first
\* get_checkpoints call) terminates, leaves an index file holding an empty
\* array and yields the empty checkpoint set.
C5_LoadOfMissingIndexYieldsEmpty ==
    (lastOp.op = "get_checkpoints" /\ ~lastOp.pre.indexExists) =>
        /\ lastOp.raised = None
        /\ lastOp.result = << <<>> >>
        /\ indexFile = IndexOf(<<>>)

----------------------------------------------------------------------------
\* the checkpoint ids of the nodes of a forest, in preorder
RECURSIVE NodeIds(_)
NodeIds(forest) ==
    LET F[i \in 0..Len(forest)] ==
            IF i = 0 THEN <<>>
            ELSE F[i - 1] \o <<forest[i].checkpoint.checkpoint_id>>
                          \o NodeIds(forest[i].children)
    IN F[Len(forest)]

\* C6: the forest get_timeline(s) returns holds each checkpoint of s exactly
\* once: its node count is total_checkpoints, the number of checkpoints whose
\* session_id is s.
C6_TimelineHoldsEachCheckpointOnce ==
    Returned("get_timeline") =>
        LET s == lastOp.args.session_id
            timeline == lastOp.result[1]
            nodes == NodeIds(timeline.tree)
            own == {cache.list[i].checkpoint_id :
                      i \in Positions(LAMBDA c : c.session_id = s, cache.list)}
        IN /\ Len(nodes) = timeline.total_checkpoints
           /\ timeline.total_checkpoints = Cardinality(own)
           /\ \A id \in own : Cardinality(Positions(LAMBDA n : n = id, nodes)) = 1

----------------------------------------------------------------------------
\* C7: after a successful fork_session every record of the forked log carries
\* the new session id, also the records that had no session id, and the forked
\* log has the records of the source checkpoint's snapshot, as many and in the
\* same order.
C7_ForkRetagsEveryRecord ==
    (Returned("fork") /\ lastOp.result[1] # <<>>) =>
        LET new_session_id == lastOp.args.session_id
            log == fs[lastOp.result[1]]
            snapshot == snapshots[lastOp.args.checkpoint_id]
        IN /\ Len(log) = Len(snapshot)
           /\ \A i \in 1..Len(log) :
                 /\ log[i].kind = "obj"
                 /\ log[i].sessionId = new_session_id
                 /\ log[i].uuid = snapshot[i].uuid
                 /\ log[i].type = snapshot[i].type
                 /\ log[i].content = snapshot[i].content

\* A fork of a snapshot of two records, one without a session id and one of
\* another session.
C7_Witness ==
    /\ Returned("fork") /\ lastOp.result[1] # <<>>
    /\ LET snapshot == snapshots[lastOp.args.checkpoint_id] IN
       /\ Len(snapshot) = 2
       /\ \E i \in 1..2 : snapshot[i].sessionId = NoField
       /\ \E i \in 1..2 : snapshot[i].sessionId \notin {NoField, lastOp.args.session_id}

----------------------------------------------------------------------------
\* C8: a successful fork_session adds exactly one checkpoint to the index,
\* whose session_id is new_session_id and whose parent is the source
\* checkpoint, and returns the path of the log named by new_session_id.
C8_ForkAddsOneChildCheckpoint ==
    (Returned("fork") /\ lastOp.result[1] # <<>>) =>
        LET old == lastOp.pre.index
            new == indexFile.data
        IN /\ Len(new) = Len(old) + 1
           /\ SubSeq(new, 1, Len(old)) = old
           /\ new[Len(new)].session_id = lastOp.args.session_id
           /\ new[Len(new)].parent_checkpoint_id = lastOp.args.checkpoint_id
           /\ new[Len(new)].checkpoint_id \notin IdsOf(old)
           /\ lastOp.result[1] = <<lastOp.args.session_id, "jsonl">>
           /\ lastOp.result[1] \in DOMAIN fs

\* A fork, into another session, of a checkpoint that has a parent itself.
C8_Witness ==
    /\ Returned("fork") /\ lastOp.result[1] # <<>>
    /\ LET source == EntryOf(lastOp.pre.index, lastOp.args.checkpoint_id) IN
       /\ source.parent_checkpoint_id # NoId
       /\ source.session_id # lastOp.args.session_id

----------------------------------------------------------------------------
\* C9: get_timeline(new_session_id) lists as a root the checkpoint that
\* fork_session created from a source checkpoint of a different session.
C9_ForkCheckpointIsTimelineRoot ==
    (/\ Returned("fork") /\ lastOp.result[1] # <<>>
     /\ EntryOf(lastOp.pre.index, lastOp.args.checkpoint_id).session_id
           # lastOp.args.session_id) =>
        LET created == indexFile.data[Len(indexFile.data)].checkpoint_id
            timeline == get_timeline(Store, lastOp.args.session_id)
        IN /\ timeline.raised = None
           /\ \E i \in 1..Len(timeline.value.tree) :
                 timeline.value.tree[i].checkpoint.checkpoint_id = created

----------------------------------------------------------------------------
\* C10: in every reachable index a checkpoint whose parent checkpoint has a
\* different session_id was created by fork_session.
C10_CrossSessionParentOnlyByFork ==
    \A i, j \in 1..Len(indexFile.data) :
        (/\ indexFile.data[i].parent_checkpoint_id = indexFile.data[j].checkpoint_id
         /\ indexFile.data[i].session_id # indexFile.data[j].session_id) =>
            indexFile.data[i].checkpoint_id \in forkCreated

----------------------------------------------------------------------------
\* C11: after any sequence of create, fork and delete operations every parent
\* id in the index that is not None names a checkpoint of the index.
C11_ParentsAreInTheIndex ==
    \A i \in 1..Len(indexFile.data) :
        indexFile.data[i].parent_checkpoint_id # NoId =>
            indexFile.data[i].parent_checkpoint_id \in IdsOf(indexFile.data)

----------------------------------------------------------------------------
\* the checkpoint reached from id by following parent references for a number of
\* steps: NoId once the walk has left the index
RECURSIVE Climb(_, _, _)
Climb(checkpoints, id, steps) ==
    IF id \notin IdsOf(checkpoints) THEN NoId
    ELSE IF steps = 0 THEN id
    ELSE Climb(checkpoints, EntryOf(checkpoints, id).parent_checkpoint_id, steps - 1)

\* C12: the parent relation over the index has no cycle: from every checkpoint,
\* following parent references leaves the index within as many steps as the
\* index has entries.
C12_ParentGraphIsAcyclic ==
    \A i \in 1..Len(indexFile.data) :
        Climb(indexFile.data, indexFile.data[i].checkpoint_id, Len(indexFile.data)) = NoId

\* A delete that re-parented a child to a grandparent still in the index.
C12_Witness ==
    /\ Returned("delete") /\ lastOp.result = <<TRUE>>
    /\ \E i \in 1..Len(lastOp.pre.index), j \in 1..Len(indexFile.data) :
          /\ lastOp.pre.index[i].parent_checkpoint_id = lastOp.args.checkpoint_id
          /\ indexFile.data[j].checkpoint_id = lastOp.pre.index[i].checkpoint_id
          /\ indexFile.data[j].parent_checkpoint_id \in IdsOf(indexFile.data)
          /\ Climb(indexFile.data, indexFile.data[j].checkpoint_id, 1)
                = indexFile.data[j].parent_checkpoint_id

----------------------------------------------------------------------------
\* C13: restore_checkpoint and fork_session called with a checkpoint id that is
\* not in the index, or whose snapshot file is absent, return failure (False,
\* None) without raising, and change no file and not the index.
C13_RestoreAndForkFailCleanly ==
    [][(/\ lastOp'.op \in {"restore", "fork"}
        /\ \/ lastOp'.args.checkpoint_id \notin IdsOf(indexFile.data)
           \/ lastOp'.args.checkpoint_id \notin DOMAIN snapshots) =>
          /\ lastOp'.raised = None
          /\ lastOp'.op = "restore" => lastOp'.result = <<FALSE>>
          /\ lastOp'.op = "fork" => lastOp'.result = << <<>> >>
          /\ fs' = fs
          /\ indexFile' = indexFile
          /\ snapshots' = snapshots
          /\ dirs' = dirs]_vars

----------------------------------------------------------------------------
\* C14: create_checkpoint called with a session log path that does not exist
\* appends the new checkpoint to the index and returns it, and writes no
\* snapshot file for it.
C14_CreateWithoutLogRecordsCheckpoint ==
    (lastOp.op = "create" /\ ~lastOp.pre.exists) =>
        /\ lastOp.raised = None
        /\ indexFile.exists
        /\ indexFile.data = Append(lastOp.pre.index, to_dict(lastOp.result[1]))
        /\ lastOp.result[1].checkpoint_id \notin DOMAIN snapshots
        /\ \A i \in 1..Len(lastOp.writes) : lastOp.writes[i] # "snapshot"

----------------------------------------------------------------------------
\* C15: after a successful restore_checkpoint(c, path) the live session file at
\* path holds exactly the content c's snapshot had, whether or not a live file
\* existed before.
C15_RestoredLogEqualsSnapshot ==
    [][(lastOp'.op = "restore" /\ lastOp'.result = <<TRUE>>) =>
          /\ lastOp'.args.session_path \in DOMAIN fs'
          /\ fs'[lastOp'.args.session_path] = snapshots[lastOp'.args.checkpoint_id]]_vars

\* A restore to a path at which no live file existed.
C15_Witness ==
    /\ lastOp.op = "restore" /\ lastOp.result = <<TRUE>>
    /\ ~lastOp.pre.exists
    /\ fs[lastOp.args.session_path] = snapshots[lastOp.args.checkpoint_id]
    /\ fs[lastOp.args.session_path] # <<>>

----------------------------------------------------------------------------
\* C20: a snapshot, once written, keeps its content under every later create,
\* restore, fork, diff and timeline operation; it disappears only by the
\* delete_checkpoint of its own checkpoint.
C20_SnapshotsAreImmutable ==
    [][\A id \in DOMAIN snapshots :
          \/ id \in DOMAIN snapshots' /\ snapshots'[id] = snapshots[id]
          \/ /\ id \notin DOMAIN snapshots'
             /\ lastOp'.op = "delete"
             /\ lastOp'.args.checkpoint_id = id]_vars

\* A restore of one snapshot while a snapshot of other content exists.
C20_Witness ==
    /\ lastOp.op = "restore" /\ lastOp.result = <<TRUE>>
    /\ \E id \in DOMAIN snapshots :
          /\ id # lastOp.args.checkpoint_id
          /\ snapshots[id] # snapshots[lastOp.args.checkpoint_id]
          /\ lastOp.pre.file = snapshots[id]

----------------------------------------------------------------------------
\* C16: a delete_checkpoint interrupted between the removal of the snapshot
\* directory and the save of the index leaves an orphaned snapshot directory
\* with no index entry; the index keeps no entry for the checkpoint once its
\* directory has been removed.
C16_InterruptedDeleteLeavesOrphanDirectory ==
    lastOp.op = "delete_interrupted" =>
        /\ lastOp.args.checkpoint_id \notin IdsOf(indexFile.data)
        /\ lastOp.args.checkpoint_id \in dirs

----------------------------------------------------------------------------
\* C17: delete_checkpoint writes the re-parenting and the removal to the index
\* file in one save: the file either is as before the call, or has the entry
\* removed and no child naming it, and it was written once.
C17_DeleteSavesIndexOnce ==
    lastOp.op \in {"delete", "delete_interrupted"} =>
        \/ indexFile.data = lastOp.pre.index
        \/ /\ lastOp.args.checkpoint_id \notin IdsOf(indexFile.data)
           /\ \A i \in 1..Len(indexFile.data) :
                 indexFile.data[i].parent_checkpoint_id # lastOp.args.checkpoint_id
           /\ Cardinality(Positions(LAMBDA w : w = "index", lastOp.writes)) = 1

\* A delete that removed an entry with children from the index file.
C17_Witness ==
    /\ lastOp.op = "delete" /\ lastOp.writes = <<"rmtree", "index">>
    /\ Len(indexFile.data) = Len(lastOp.pre.index) - 1
    /\ \E i \in 1..Len(lastOp.pre.index) :
          lastOp.pre.index[i].parent_checkpoint_id = lastOp.args.checkpoint_id

----------------------------------------------------------------------------
\* C18: once delete_checkpoint(d) has succeeded, d is absent from the index and
\* from what get_checkpoints returns, its snapshot directory does not exist,
\* and every later restore_checkpoint, fork_session or delete_checkpoint on d
\* returns failure.
C18_DeletedCheckpointStaysGone ==
    /\ \A d \in deletedIds :
          /\ d \notin IdsOf(indexFile.data)
          /\ d \notin IdsOf(cache.list)
          /\ d \notin dirs
          /\ d \notin DOMAIN snapshots
    /\ (/\ lastOp.op \in {"restore", "fork", "delete"}
        /\ lastOp.args.checkpoint_id \in deletedIds
        /\ lastOp.args.checkpoint_id \notin IdsOf(lastOp.pre.index)) =>
          /\ lastOp.raised = None
          /\ lastOp.op \in {"restore", "delete"} => lastOp.result = <<FALSE>>
          /\ lastOp.op = "fork" => lastOp.result = << <<>> >>

\* A restore of a checkpoint that was deleted before, while another checkpoint
\* is in the index.
C18_Witness ==
    /\ lastOp.op = "restore"
    /\ lastOp.args.checkpoint_id \in deletedIds
    /\ lastOp.result = <<FALSE>>
    /\ indexFile.data # <<>>

----------------------------------------------------------------------------
\* C19: delete_checkpoint called with an id that is not in the index returns
\* False and leaves the index entries and every snapshot directory unchanged.
C19_DeleteOfUnknownIdChangesNothing ==
    [][(/\ lastOp'.op = "delete"
        /\ lastOp'.args.checkpoint_id \notin IdsOf(indexFile.data)) =>
          /\ lastOp'.raised = None
          /\ lastOp'.result = <<FALSE>>
          /\ indexFile'.data = indexFile.data
          /\ dirs' = dirs
          /\ snapshots' = snapshots]_vars

----------------------------------------------------------------------------
\* The fields of a checkpoint's entry that no operation may change.
FixedFields(c) ==
    <<c.checkpoint_id, c.session_id, c.name, c.description, c.timestamp,
      c.message_uuid, c.branch_name>>

\* C21: for every checkpoint in the index, checkpoint_id, session_id, name,
\* description, timestamp, message_uuid and branch_name are the same after every
\* step as before it, in the index file and in the list get_checkpoints
\* returns; parent_checkpoint_id changes only in a delete_checkpoint that
\* removes the checkpoint it named.
C21_MetadataIsImmutable ==
    [][/\ \A i \in 1..Len(indexFile.data) : \A j \in 1..Len(indexFile'.data) :
             indexFile.data[i].checkpoint_id = indexFile'.data[j].checkpoint_id =>
                /\ FixedFields(indexFile'.data[j]) = FixedFields(indexFile.data[i])
                /\ indexFile'.data[j].parent_checkpoint_id
                       # indexFile.data[i].parent_checkpoint_id =>
                      /\ lastOp'.op = "delete"
                      /\ lastOp'.result = <<TRUE>>
                      /\ lastOp'.args.checkpoint_id
                            = indexFile.data[i].parent_checkpoint_id
                      /\ lastOp'.args.checkpoint_id \notin IdsOf(indexFile'.data)
       /\ \A i \in 1..Len(cache.list) : \A j \in 1..Len(cache'.list) :
             cache.list[i].checkpoint_id = cache'.list[j].checkpoint_id =>
                /\ FixedFields(cache'.list[j]) = FixedFields(cache.list[i])
                /\ cache'.list[j].parent_checkpoint_id
                       # cache.list[i].parent_checkpoint_id =>
                      /\ lastOp'.op = "delete"
                      /\ lastOp'.args.checkpoint_id = cache.list[i].parent_checkpoint_id]_vars

\* A delete has re-pointed a child that was created at a later time than
\* another checkpoint still in the index, one of them on a named branch.
C21_Witness ==
    /\ Returned("delete") /\ lastOp.result = <<TRUE>>
    /\ \E i \in 1..Len(lastOp.pre.index) : \E j, k \in 1..Len(indexFile.data) :
          /\ lastOp.pre.index[i].checkpoint_id = indexFile.data[j].checkpoint_id
          /\ lastOp.pre.index[i].parent_checkpoint_id = lastOp.args.checkpoint_id
          /\ indexFile.data[j].parent_checkpoint_id # lastOp.args.checkpoint_id
          /\ indexFile.data[j].timestamp # indexFile.data[k].timestamp
          /\ indexFile.data[j].branch_name # indexFile.data[k].branch_name

----------------------------------------------------------------------------
\* C22: when the index file exists and its content is not an array of
\* well-formed checkpoint objects (text that is no JSON, or JSON of another
\* shape), a get_checkpoints that reads the file returns the empty list and
\* does not raise.
C22_CorruptIndexLoadsAsEmpty ==
    [][(/\ lastOp'.op = "get_checkpoints"
        /\ indexFile.exists
        /\ indexFile.form # "array"
        /\ (~cache.loaded \/ lastOp'.args.force_refresh)) =>
          /\ lastOp'.raised = None
          /\ lastOp'.result = << <<>> >>]_vars

----------------------------------------------------------------------------
\* C23: when a write of the index, of a snapshot, of a backup or of a forked
\* log fails with an I/O error during create, delete, restore or fork, the call
\* returns (its result value reports the failure): the OSError of the failed
\* write does not leave the manager.
C23_WriteFailureIsReturned ==
    lastOp.op \in {"create", "delete", "restore", "fork"} => lastOp.raised # "OSError"

----------------------------------------------------------------------------
\* C30: in a single manager with no other writer, after every create_checkpoint,
\* fork_session or delete_checkpoint, returned or raised, the cached list of
\* checkpoints (when there is one) is the list stored in the index file.
C30_CacheEqualsIndexFile ==
    (lastOp.op \in {"create", "fork", "delete"} /\ cache.loaded) =>
        /\ indexFile.exists
        /\ indexFile.form = "array"
        /\ MapSeq(to_dict, cache.list) = indexFile.data

----------------------------------------------------------------------------
\* C24: when two managers on the same index file have each loaded the index
\* and then each create a checkpoint, one right after the other, the index
\* file after the second save is the list of the manager that saved last: the
\* checkpoint of the first writer is not in the index, and its data directory
\* is still on disk.
C24_LastWriterWins ==
    [][(/\ cache.loaded /\ otherCache.loaded
        /\ lastOp.raised = None /\ lastOp'.raised = None
        /\ <<lastOp.op, lastOp'.op>> \in {<<"create", "other.create">>,
                                          <<"other.create", "create">>}) =>
          /\ indexFile'.data = MapSeq(to_dict, IF lastOp'.op = "create" THEN cache'.list
                                               ELSE otherCache'.list)
          /\ lastOp.result[1].checkpoint_id \notin IdsOf(indexFile'.data)
          /\ lastOp.result[1].checkpoint_id \in dirs']_vars

\* Both managers had loaded the index; the first manager's checkpoint was in
\* the index file, and the second manager's create has replaced it.
C24_Witness ==
    /\ lastOp.op = "other.create" /\ lastOp.raised = None
    /\ cache.loaded /\ cache.list # <<>>
    /\ IdsOf(cache.list) \subseteq IdsOf(lastOp.pre.index)
    /\ IdsOf(cache.list) \cap IdsOf(indexFile.data) = {}
    /\ IdsOf(cache.list) \subseteq dirs

----------------------------------------------------------------------------
\* the checkpoints of a session in a list (all of them for no session)
OfSession(checkpoints, session_id) ==
    IF session_id = None THEN checkpoints
    ELSE FilterSeq(LAMBDA c : c.session_id = session_id, checkpoints)

\* C25: a get_checkpoints(force_refresh=True) returns exactly the checkpoints
\* that are in the index file at that moment, also when another writer has
\* changed the file since the last load; a get_checkpoints without
\* force_refresh after an earlier load returns the cached list as it was.
C25_ForceRefreshReadsTheFile ==
    [][(lastOp'.op = "get_checkpoints" /\ indexFile.exists) =>
          /\ lastOp'.raised = None
          /\ lastOp'.args.force_refresh =>
                lastOp'.result = <<OfSession(MapSeq(from_dict, indexFile.data),
                                             lastOp'.args.session_id)>>
          /\ (~lastOp'.args.force_refresh /\ cache.loaded) =>
                lastOp'.result = <<OfSession(cache.list, lastOp'.args.session_id)>>]_vars

\* The second manager has changed the index file since this manager loaded
\* it, and a get_checkpoints without force_refresh has just returned the list
\* as it was cached: a checkpoint that is no longer in the file.
C25_Witness ==
    /\ lastOp.op = "get_checkpoints" /\ lastOp.raised = None
    /\ ~lastOp.args.force_refresh
    /\ lastOp.args.session_id = None
    /\ lastOp.result[1] # <<>>
    /\ IdsOf(lastOp.result[1]) \cap IdsOf(indexFile.data) = {}
    /\ indexFile.data # <<>>

----------------------------------------------------------------------------
----------------------------------------------------------------------------
\* The records of a snapshot but for those the claim sets aside: records of
\* another type than user and assistant, and chat records of structured content.
WithoutIgnored(lines) ==
    FilterSeq(LAMBDA l : l.type \in {"user", "assistant"} /\ l.content # "structured", lines)

\* C27: when the snapshots of two checkpoints differ only by records of another
\* type than user/assistant or by chat records whose content is structured,
\* get_diff_between_checkpoints on them returns the empty sequence.
C27_DiffIgnoresOtherRecords ==
    (/\ Returned("diff")
     /\ lastOp.args.checkpoint_id \in DOMAIN snapshots
     /\ lastOp.args.checkpoint_id_2 \in DOMAIN snapshots
     /\ WithoutIgnored(snapshots[lastOp.args.checkpoint_id])
           = WithoutIgnored(snapshots[lastOp.args.checkpoint_id_2])) =>
        lastOp.result = << <<>> >>

\* A diff of two checkpoints whose snapshots differ by a summary record or a
\* chat record of structured content, and by nothing else.
C27_Witness ==
    /\ Returned("diff")
    /\ lastOp.args.checkpoint_id \in DOMAIN snapshots
    /\ lastOp.args.checkpoint_id_2 \in DOMAIN snapshots
    /\ snapshots[lastOp.args.checkpoint_id] # snapshots[lastOp.args.checkpoint_id_2]
    /\ WithoutIgnored(snapshots[lastOp.args.checkpoint_id])
          = WithoutIgnored(snapshots[lastOp.args.checkpoint_id_2])
    /\ Len(WithoutIgnored(snapshots[lastOp.args.checkpoint_id])) > 1

----------------------------------------------------------------------------
\* C28: the branches value get_timeline(s) returns is the set of the non-empty
\* branch names of the checkpoints of s: each such name is in it exactly once,
\* however many checkpoints carry it.
C28_BranchesListsEachNameOnce ==
    Returned("get_timeline") =>
        LET branches == lastOp.result[1].branches
            own == Positions(LAMBDA c : c.session_id = lastOp.args.session_id, cache.list)
            names == {cache.list[i].branch_name : i \in own} \ {None, ""}
        IN /\ {branches[i] : i \in 1..Len(branches)} = names
           /\ \A name \in names :
                 Cardinality(Positions(LAMBDA b : b = name, branches)) = 1

----------------------------------------------------------------------------
\* A successful restore_checkpoint right after a successful restore_checkpoint
\* on the same live path, which found a live file there.
SecondRestore ==
    /\ lastOp.op = "restore" /\ lastOp.result = <<TRUE>> /\ lastOp.pre.exists
    /\ lastOp'.op = "restore" /\ lastOp'.result = <<TRUE>>
    /\ lastOp'.args.session_path = lastOp.args.session_path

\* C29 as stated: after two successive successful restores on the same live
\* path, the backup holds exactly the content that was live immediately before
\* the second restore, and the content that was live before the first restore
\* is in neither the live file nor the backup.
C29_FirstLiveContentIsLost ==
    [][SecondRestore =>
          /\ fs'[BackupPath(lastOp'.args.session_path)] = fs[lastOp'.args.session_path]
          /\ fs'[lastOp'.args.session_path] # lastOp.pre.file
          /\ fs'[BackupPath(lastOp'.args.session_path)] # lastOp.pre.file]_vars

\* C29 as amended: after two successive successful restores on the same live
\* path, the backup holds exactly the content that was live immediately before
\* the second restore, and the content that was live before the first restore
\* is in neither the live file nor the backup unless it equals the content of
\* one of the two snapshots restored.
C29_FirstLiveContentIsLostUnlessRestored ==
    [][SecondRestore =>
          /\ fs'[BackupPath(lastOp'.args.session_path)] = fs[lastOp'.args.session_path]
          /\ (/\ lastOp.pre.file # snapshots[lastOp.args.checkpoint_id]
              /\ lastOp.pre.file # snapshots[lastOp'.args.checkpoint_id]) =>
                /\ fs'[lastOp'.args.session_path] # lastOp.pre.file
                /\ fs'[BackupPath(lastOp'.args.session_path)] # lastOp.pre.file]_vars

\* A restore of one snapshot over a live file that holds another snapshot's
\* content, put there by the restore before: the backup now holds that
\* content, and no file the log the first restore replaced.
C29_Witness ==
    /\ lastOp.op = "restore" /\ lastOp.result = <<TRUE>> /\ lastOp.pre.exists
    /\ fs[BackupPath(lastOp.args.session_path)] = lastOp.pre.file
    /\ fs[lastOp.args.session_path] # lastOp.pre.file
    /\ \E id \in DOMAIN snapshots : snapshots[id] = lastOp.pre.file
    /\ \A p \in DOMAIN fs : \A i \in 1..Len(fs[p]) : fs[p][i].fmt = "canonical"

----------------------------------------------------------------------------
\* C31: fork_session changes no session log that existed before the call: the
\* live log of the source session and every other log in the target directory
\* have the same content after the fork as before, for every new_session_id.
C31_ForkLeavesExistingLogsUnchanged ==
    [][lastOp'.op = "fork" =>
          \A p \in DOMAIN fs : p \in DOMAIN fs' /\ fs'[p] = fs[p]]_vars

----------------------------------------------------------------------------
\* C32: after a successful fork_session the checkpoint it created has a
\* snapshot that is the forked log, record for record: as many records as the
\* source checkpoint's snapshot, each with the new session id; restoring the
\* forked session to that checkpoint leaves the forked log as the fork wrote it.
C32_ForkCheckpointSnapshotsForkedLog ==
    (Returned("fork") /\ lastOp.result[1] # <<>>) =>
        LET new_session_path == lastOp.result[1]
            made == indexFile.data[Len(indexFile.data)].checkpoint_id
            restored == restore_checkpoint(Store, made, new_session_path)
        IN /\ made \in DOMAIN snapshots
           /\ snapshots[made] = fs[new_session_path]
           /\ Len(snapshots[made]) = Len(snapshots[lastOp.args.checkpoint_id])
           /\ \A i \in 1..Len(snapshots[made]) :
                 snapshots[made][i].sessionId = lastOp.args.session_id
           /\ restored.value = TRUE
           /\ restored.st.fs[new_session_path] = fs[new_session_path]

\* A fork into another session of a snapshot that is a proper
\* prefix of its session's live log, ending at the checkpoint's message.
C32_Witness ==
    /\ Returned("fork") /\ lastOp.result[1] # <<>>
    /\ LET source == EntryOf(indexFile.data, lastOp.args.checkpoint_id)
           snapshot == snapshots[lastOp.args.checkpoint_id]
       IN /\ source.session_id # lastOp.args.session_id
          /\ Len(snapshot) >= 1
          /\ snapshot[Len(snapshot)].uuid = source.message_uuid
          /\ Len(fs[LogPath(source.session_id)]) > Len(snapshot)

----------------------------------------------------------------------------
\* C34: get_diff_between_checkpoints raises nothing; a side whose checkpoint id
\* is not in the index, or has no snapshot file, counts as having no messages:
\* the result is the diff of the other side's projected messages against the
\* empty sequence, and empty when both sides are empty.
C34_DiffTakesUnknownSideAsEmpty ==
    lastOp.op = "diff" =>
        LET side(id) == IF id \notin IdsOf(indexFile.data) \/ id \notin DOMAIN snapshots
                        THEN <<>>
                        ELSE diff_content(get_checkpoint_messages(Store, id))
        IN /\ lastOp.raised = None
           /\ lastOp.result[1] = unified_diff(side(lastOp.args.checkpoint_id),
                                             side(lastOp.args.checkpoint_id_2),
                                             lastOp.args.checkpoint_id,
                                             lastOp.args.checkpoint_id_2)

----------------------------------------------------------------------------
\* every node of the forest has its children in ascending timestamp order
RECURSIVE ChildrenAscending(_)
ChildrenAscending(forest) ==
    \A i \in 1..Len(forest) :
        LET children == forest[i].children IN
        /\ \A j, k \in 1..Len(children) :
              j < k => children[j].checkpoint.timestamp[2] <= children[k].checkpoint.timestamp[2]
        /\ ChildrenAscending(children)

\* C35: in every result of get_timeline the children of each node are in
\* ascending order of their timestamps.
C35_TimelineChildrenAscendByTimestamp ==
    Returned("get_timeline") => ChildrenAscending(lastOp.result[1].tree)

----------------------------------------------------------------------------
\* C33: every run started by run_agent ends up stored with status completed or
\* failed, whatever other runs start or finish meanwhile: once no thread is
\* inside run_agent or _execute_agent any more, so that nothing more is written,
\* agent_runs.json holds a record of each finished run with one of these two
\* statuses.
C33_FinishedRunIsStoredAsFinished ==
    (\A r \in 1..MaxRuns : agents.pc[r] \in {"idle", "done"}) =>
        \A r \in 1..MaxRuns :
            agents.pc[r] = "done" =>
                \E i \in 1..Len(agents.runs_file.data) :
                    /\ agents.runs_file.data[i].run_id = r
                    /\ agents.runs_file.data[i].status \in {"completed", "failed"}

====
